---- MODULE Spec2Model ----
(***************************************************************************)
(* Password generator: the coordinator (PasswordGeneratorUtil), its web    *)
(* workers (generate-password.worker.js) and the pure helpers they use.    *)
(*                                                                         *)
(* Characters are ASCII codes and strings are sequences of codes.  The     *)
(* model clock counts time steps of PASSWORD_GENERATION_TIMESTEP (0.05 s): *)
(* a timeout of n means n time steps.  A proportion of the options is      *)
(* written [num, den] and stands for the double num / den; the digit and   *)
(* symbol proportions are compared exactly (for the small counts of the    *)
(* model doubles decide these comparisons the same way), the case variance *)
(* is computed in doubles.  The functions of the worker and the component  *)
(* that calls the coordinator have their own variables and specifications. *)
(***************************************************************************)
EXTENDS Integers, Sequences, FiniteSets, TLC

(* ------------------------------ bounds -------------------------------- *)

\* Number of generatePassword calls made on one coordinator.
MaxCalls == 2
\* navigator.hardwareConcurrency of the environment.
HardwareConcurrency == 2
\* Letters (and digits) kept of each built-in character class.
ClassSize == 1
\* Longest passwordLength requested.
MaxLen == 2
\* Longest timeout requested, in time steps.
MaxTimeout == 1
\* Longest wait for the earlier requests that a call keeps count of, in time steps.
MaxWaited == 1
\* Largest character code classifyCharacter is called with.
MaxCharCode == 127
\* Longest password passwordIsValid is called with.
MaxCandidateLen == 3
\* Largest n for which the maximum case variance (n - 1) / (n + 1) is tried.
MaxRatio == 3
\* Number of onGeneratePassword calls made on one PasswordGenerator component.
MaxRequests == 3
\* Number of generatePassword calls of the callers that all ask for the same.
MaxOverlap == 3
\* Largest length of the buffer of the random pool.
MaxPoolLength == 3
\* Number of getRandomByte calls on one random pool.
MaxBytes == 9
\* Length of the strings generateRandomString builds byte by byte.
MaxStringLength == 2

\* Number of generatePassword calls on the earlier PasswordGeneratorUtil.
MaxLegacyCalls == 3

\* Largest lower bound getRandomByteInRange is called with (every upper bound
\* from it to 255 is tried).
MaxMin == 1

\* Largest navigator.hardwareConcurrency a browser reports.
MaxConcurrency == 12

\* Number of generatePassword calls made on a constructed pool.
MaxPoolCalls == 2

\* Longest string removeDuplicateCharacters is called with.
MaxInputLength == 4

\* Longest symbols string of a delta of onOptionsChange.
MaxSymbolsLength == 2

(* ----------------------------- constants ------------------------------ *)

\* The time a worker spends on one request, in time steps of the model clock.
PASSWORD_GENERATION_TIMESTEP == 1

(* ------------------------- classifyCharacter -------------------------- *)

\* Fault variant: the third range of symbols ends one code early, at 95.
classifyCharacterShortRange(character) ==
  IF character >= 48 /\ character <= 57 THEN "digit"
  ELSE IF character >= 65 /\ character <= 90 THEN "uppercase"
  ELSE IF character >= 97 /\ character <= 122 THEN "lowercase"
  ELSE IF \/ (character >= 32 /\ character <= 47)
          \/ (character >= 58 /\ character <= 64)
          \/ (character >= 91 /\ character <= 95)
          \/ (character >= 123 /\ character <= 126) THEN "symbol"
  ELSE "null"

\* classifyCharacter(character); the string "null" stands for null.
classifyCharacter(character) ==
  IF character >= 48 /\ character <= 57 THEN "digit"
  ELSE IF character >= 65 /\ character <= 90 THEN "uppercase"
  ELSE IF character >= 97 /\ character <= 122 THEN "lowercase"
  ELSE IF \/ (character >= 32 /\ character <= 47)
          \/ (character >= 58 /\ character <= 64)
          \/ (character >= 91 /\ character <= 96)
          \/ (character >= 123 /\ character <= 126) THEN "symbol"
  ELSE "null"

(* -------------------------- passwordIsValid --------------------------- *)

\* characterCount.get(classification) || 0
characterCount(password, classification) ==
  Cardinality({i \in 1..Len(password) :
                 classifyCharacter(password[i]) = classification})

Abs(x) == IF x < 0 THEN -x ELSE x

\* count / total >= proportion, on exact rationals; x / 0 is NaN or Infinity
\* in the source: NaN compares false, Infinity compares true.
ProportionAtLeast(count, total, proportion) ==
  IF total = 0 THEN count > 0
  ELSE count * proportion.den >= proportion.num * total

(* Numbers of the source are IEEE 754 doubles, with a significand of 53     *)
(* bits.  The ones the case-variance test computes lie in 0..1; such a       *)
(* number is written here in binary with 60 bits after the point, as         *)
(* [hi, lo]: hi holds the bits 1..30 after the point (and 2^30 for the       *)
(* number 1), lo the bits 31..60.  Every double from 2^-7 to 1, and 0, can   *)
(* be written this way.                                                      *)

Scale == 32768 * 32768

Fixed(hi, lo) == [hi |-> hi, lo |-> lo]

\* The weight, in units of lo, of the last bit of the significand of a double
\* whose first 30 bits after the point are hi.
UnitInLastPlace(hi) ==
  IF hi >= Scale \div 2 THEN 128
  ELSE IF hi >= Scale \div 4 THEN 64
  ELSE IF hi >= Scale \div 8 THEN 32
  ELSE IF hi >= Scale \div 16 THEN 16
  ELSE IF hi >= Scale \div 32 THEN 8
  ELSE IF hi >= Scale \div 64 THEN 4
  ELSE IF hi >= Scale \div 128 THEN 2
  ELSE 1

\* The double nearest to the number [hi, lo] (plus something below its last
\* bit when inexact): round to nearest, ties to the even significand.
RoundToNearest(hi, lo, inexact) ==
  LET unit   == UnitInLastPlace(hi)
      kept   == lo \div unit
      rest   == lo % unit
      guard  == unit > 1 /\ rest >= unit \div 2
      sticky == inexact \/ (unit > 1 /\ rest % (unit \div 2) # 0)
      up     == IF guard /\ (sticky \/ kept % 2 = 1) THEN 1 ELSE 0
      low    == (kept + up) * unit
  IN  IF hi = 0 \/ hi >= Scale THEN Fixed(hi, lo)
      ELSE IF low = Scale THEN Fixed(hi + 1, 0)
      ELSE Fixed(hi, low)

\* The first 60 bits of a / b after the point, for integers 0 <= a < b < 65536,
\* by long division in four digits of 15 bits: <<bits 1..30, bits 31..60,
\* whether something is left>>.
Quotient(a, b) ==
  LET d1 == (a * 32768) \div b
      r1 == (a * 32768) % b
      d2 == (r1 * 32768) \div b
      r2 == (r1 * 32768) % b
      d3 == (r2 * 32768) \div b
      r3 == (r2 * 32768) % b
      d4 == (r3 * 32768) \div b
      r4 == (r3 * 32768) % b
  IN  <<d1 * 32768 + d2, d3 * 32768 + d4, r4 # 0>>

\* a / b in doubles, for integers 0 <= a <= b < 65536 with a = 0 or
\* a / b >= 2^-7.
Divide(a, b) ==
  IF a = b THEN Fixed(Scale, 0)
  ELSE CHOOSE x \in {RoundToNearest(q[1], q[2], q[3]) : q \in {Quotient(a, b)}} : TRUE

\* Math.abs(x - 0.5) in doubles, for a double x in 0..1.
AbsMinusHalf(x) ==
  IF x.hi >= Scale \div 2 THEN Fixed(x.hi - Scale \div 2, x.lo)
  ELSE IF x.lo = 0 THEN RoundToNearest(Scale \div 2 - x.hi, 0, FALSE)
  ELSE RoundToNearest(Scale \div 2 - x.hi - 1, Scale - x.lo, FALSE)

\* 2 * x in doubles, for a double x in 0..1/2.
Twice(x) == Fixed(2 * x.hi + x.lo \div (Scale \div 2), (2 * x.lo) % Scale)

\* x <= y on doubles.
AtMost(x, y) == x.hi < y.hi \/ (x.hi = y.hi /\ x.lo <= y.lo)

\* Fault variant: any case variance is accepted.
CaseVarianceIgnored(lowercase, letters, maxCaseVariance) == TRUE

\* 2 * Math.abs(lowercase / letters - 0.5) <= maxCaseVariance, letters > 0;
\* the option maxCaseVariance is the double num / den.
CaseVarianceAtMost(lowercase, letters, maxCaseVariance) ==
  \E ratio \in {Divide(lowercase, letters)} :
    \E distance \in {AbsMinusHalf(ratio)},
       maximum \in {Divide(maxCaseVariance.num, maxCaseVariance.den)} :
      AtMost(Twice(distance), maximum)

\* Fault variant: the symbol constraint applies to an empty symbol set too.
passwordIsValidEmptySymbols(password, options) ==
  LET digits    == characterCount(password, "digit")
      symbols   == characterCount(password, "symbol")
      lowercase == characterCount(password, "lowercase")
      uppercase == characterCount(password, "uppercase")
      letters   == lowercase + uppercase
  IN  /\ (~options.useDigits
            \/ ProportionAtLeast(digits, Len(password), options.minDigitProportion))
      /\ (~options.useSymbols
            \/ ProportionAtLeast(symbols, Len(password), options.minSymbolProportion))
      /\ (~(letters > 0 /\ options.useUppercase /\ options.useLowercase)
            \/ CaseVarianceAtMost(lowercase, letters, options.maxCaseVariance))

\* Fault variant: the digit constraint applies whether or not digits are used.
passwordIsValidDigitsAlways(password, options) ==
  LET digits    == characterCount(password, "digit")
      symbols   == characterCount(password, "symbol")
      lowercase == characterCount(password, "lowercase")
      uppercase == characterCount(password, "uppercase")
      letters   == lowercase + uppercase
  IN  /\ ProportionAtLeast(digits, Len(password), options.minDigitProportion)
      /\ (~(options.useSymbols /\ Len(options.symbols) > 0)
            \/ ProportionAtLeast(symbols, Len(password), options.minSymbolProportion))
      /\ (~(letters > 0 /\ options.useUppercase /\ options.useLowercase)
            \/ CaseVarianceAtMost(lowercase, letters, options.maxCaseVariance))

\* Fault variant: passwordIsValid without the case-variance test.
passwordIsValidNoCase(password, options) ==
  LET digits  == characterCount(password, "digit")
      symbols == characterCount(password, "symbol")
  IN  /\ (~options.useDigits
            \/ ProportionAtLeast(digits, Len(password), options.minDigitProportion))
      /\ (~(options.useSymbols /\ Len(options.symbols) > 0)
            \/ ProportionAtLeast(symbols, Len(password), options.minSymbolProportion))

passwordIsValid(password, options) ==
  LET digits    == characterCount(password, "digit")
      symbols   == characterCount(password, "symbol")
      lowercase == characterCount(password, "lowercase")
      uppercase == characterCount(password, "uppercase")
      letters   == lowercase + uppercase
  IN  /\ (~options.useDigits
            \/ ProportionAtLeast(digits, Len(password), options.minDigitProportion))
      /\ (~(options.useSymbols /\ Len(options.symbols) > 0)
            \/ ProportionAtLeast(symbols, Len(password), options.minSymbolProportion))
      /\ (~(letters > 0 /\ options.useUppercase /\ options.useLowercase)
            \/ CaseVarianceAtMost(lowercase, letters, options.maxCaseVariance))

(* ------------------------ random string sampling ---------------------- *)

\* A byte of the random pool: any value a Uint8Array element can hold.
Byte == 0..255

\* Fault variant: the limit of the redraw test is kept in eight bits.
RedrawByteLimit(randomUint8, bound) ==
  randomUint8 > (((256 \div bound) * bound) % 256) - 1

\* Fault variant: every byte is taken, none is drawn again.
RedrawNever(randomUint8, bound) == randomUint8 > 256 - 1

\* The condition of the do-while loop of getRandomByteInRange: the byte is
\* drawn again while it is above floor((0xff + 1) / bound) * bound - 1.
Redraw(randomUint8, bound) == randomUint8 > (256 \div bound) * bound - 1

\* Fault variant: min is not added to the remainder.
InRangeNoOffset(randomUint8, min, bound) == randomUint8 % bound

\* What getRandomByteInRange returns for the byte it keeps.
InRange(randomUint8, min, bound) == (randomUint8 % bound) + min

\* The values getRandomByteInRange(min, max) can return.
getRandomByteInRange(min, max) ==
  LET bound == max - min + 1
  IN  {InRange(randomUint8, min, bound) :
         randomUint8 \in {b \in Byte : ~Redraw(b, bound)}}

\* The built-in character classes, cut to their first ClassSize characters.
UppercaseChars == [i \in 1..ClassSize |-> 64 + i]
LowercaseChars == [i \in 1..ClassSize |-> 96 + i]
DigitChars     == [i \in 1..ClassSize |-> 47 + i]

\* The characters of a string.
Range(characters) == {characters[i] : i \in 1..Len(characters)}

\* What string concatenation appends for characters[index]: the character,
\* or the text "undefined" when the index is outside the string.
CharAt(characters, index) ==
  IF index >= 0 /\ index < Len(characters)
    THEN <<characters[index + 1]>>
    ELSE <<117, 110, 100, 101, 102, 105, 110, 101, 100>>

\* Highest index generateRandomString asks getRandomByteInRange for.
MaxIndex(characters) == Len(characters) - 1

\* Every string generateRandomString(length, characters) can return.
RECURSIVE generateRandomString(_, _)
generateRandomString(length, characters) ==
  IF length = 0 THEN {<<>>}
  ELSE {randomString \o CharAt(characters, index) :
          randomString \in generateRandomString(length - 1, characters),
          index \in getRandomByteInRange(0, MaxIndex(characters))}

\* Fault variant: the digits are added whether or not useDigits is set.
passwordCharsDigitsAlways(options) ==
  (IF options.useUppercase THEN UppercaseChars ELSE <<>>)
    \o (IF options.useLowercase THEN LowercaseChars ELSE <<>>)
    \o DigitChars
    \o (IF options.useSymbols THEN options.symbols ELSE <<>>)

\* passwordChars of generatePassword: the enabled classes, in this order.
passwordChars(options) ==
  (IF options.useUppercase THEN UppercaseChars ELSE <<>>)
    \o (IF options.useLowercase THEN LowercaseChars ELSE <<>>)
    \o (IF options.useDigits THEN DigitChars ELSE <<>>)
    \o (IF options.useSymbols THEN options.symbols ELSE <<>>)

(* ------------------------------ options ------------------------------- *)

Proportion(num, den) == [num |-> num, den |-> den]

\* The symbols of the default options ('!%@#'), cut to ClassSize characters.
SymbolChars ==
  SubSeq(<<33, 37, 64, 35>>, 1, IF ClassSize < 4 THEN ClassSize ELSE 4)

\* No candidate is valid: every character must be a digit and a symbol.
OptionsUnsatisfiable ==
  [passwordLength |-> 1,
   minDigitProportion |-> Proportion(1, 1),
   minSymbolProportion |-> Proportion(1, 1),
   maxCaseVariance |-> Proportion(1, 1),
   useLowercase |-> FALSE, useUppercase |-> FALSE,
   useDigits |-> TRUE, useSymbols |-> TRUE, symbols |-> SymbolChars]

\* Every candidate is valid: digits only, all of them required to be digits.
OptionsDigitsOnly ==
  [passwordLength |-> MaxLen,
   minDigitProportion |-> Proportion(1, 1),
   minSymbolProportion |-> Proportion(0, 1),
   maxCaseVariance |-> Proportion(1, 1),
   useLowercase |-> FALSE, useUppercase |-> FALSE,
   useDigits |-> TRUE, useSymbols |-> FALSE, symbols |-> SymbolChars]

\* Some candidates are valid: letters of both cases, neither case more than
\* three times the other.
OptionsBalanced ==
  [passwordLength |-> MaxLen,
   minDigitProportion |-> Proportion(0, 1),
   minSymbolProportion |-> Proportion(0, 1),
   maxCaseVariance |-> Proportion(1, 2),
   useLowercase |-> TRUE, useUppercase |-> TRUE,
   useDigits |-> FALSE, useSymbols |-> FALSE, symbols |-> SymbolChars]

\* The options the callers of generatePassword pass in the model.
OptionSet == {OptionsUnsatisfiable, OptionsDigitsOnly, OptionsBalanced}

\* Letters of both cases only, in equal numbers, in a password of odd length.
OptionsExactOdd ==
  [passwordLength |-> 3,
   minDigitProportion |-> Proportion(0, 1),
   minSymbolProportion |-> Proportion(0, 1),
   maxCaseVariance |-> Proportion(0, 1),
   useLowercase |-> TRUE, useUppercase |-> TRUE,
   useDigits |-> FALSE, useSymbols |-> FALSE, symbols |-> SymbolChars]

\* Letters of both cases in equal numbers, and digits, in a password of even
\* length.
OptionsExactEven ==
  [passwordLength |-> 2,
   minDigitProportion |-> Proportion(0, 1),
   minSymbolProportion |-> Proportion(0, 1),
   maxCaseVariance |-> Proportion(0, 1),
   useLowercase |-> TRUE, useUppercase |-> TRUE,
   useDigits |-> TRUE, useSymbols |-> FALSE, symbols |-> SymbolChars]

\* The options of callers that ask for an exact balance of the letter cases.
ExactOptionSet == {OptionsExactOdd, OptionsExactEven}

\* The timeouts the callers pass, in time steps.
TimeoutSet == 0..MaxTimeout

\* The candidates one pass of generatePassword's do-while loop can build.
Candidates ==
  [options \in OptionSet \cup ExactOptionSet |->
     generateRandomString(options.passwordLength, passwordChars(options))]

(* ------------------------------- state -------------------------------- *)

\* this.#workers: (navigator.hardwareConcurrency || 2) workers, in pool order.
PoolSize(hardwareConcurrency) ==
  IF hardwareConcurrency = 0 THEN 2 ELSE hardwareConcurrency

Workers == 1..PoolSize(HardwareConcurrency)

VARIABLES
  currentRequestId,        \* #currentRequestId
  ongoingWorkerPromises,   \* #ongoingWorkerPromises: the request ids it holds
  workerPromiseHandlers,   \* #workerPromiseHandlers: the (requestId, worker) it holds
  calls,                   \* calls[r]: the generatePassword call with requestId r
  inbox,                   \* inbox[w]: requests posted to worker w, not yet handled
  running,                 \* running[w]: the request worker w is serving
  outbox,                  \* outbox[w]: responses of worker w, not yet handled
  cryptoAvailable          \* whether self.crypto.getRandomValues exists

\* The coordinator and its workers.
coordinatorVars ==
  <<currentRequestId, ongoingWorkerPromises, workerPromiseHandlers, calls,
    inbox, running, outbox, cryptoAvailable>>

VARIABLES
  sampling,                \* a call of getRandomByteInRange: arguments, randomUint8, result
  classification,          \* a call of classifyCharacter: argument and result
  validation,              \* a call of passwordIsValid: arguments and result
  component,               \* the PasswordGenerator component: its state and requests
  randomPool,              \* the worker's randomPool: buffer and numRead
  legacy,                  \* the earlier PasswordGeneratorUtil with the cancelling flag
  construction,            \* the constructor of PasswordGeneratorUtil and the pool it builds
  app,                     \* the App component: its options
  deduplication            \* a call of removeDuplicateCharacters: argument and result

\* What the steps of the coordinator and its workers leave alone.
nonCoordinatorVars ==
  <<sampling, classification, validation, component, randomPool, legacy,
    construction, app, deduplication>>

vars == <<coordinatorVars, nonCoordinatorVars>>

\* A function that is not being evaluated, a component that is not mounted.
AtRest == [state |-> "rest"]

\* What a promise settles with, or a call returns or throws.  requestId and
\* options record where a password comes from: the requestId its response
\* echoed and the options the worker generated it from.
Outcome(kind, password, requestId, options) ==
  [kind |-> kind, password |-> password, requestId |-> requestId,
   options |-> options]

Failure(name, call, requestId) == Outcome(name, <<>>, requestId, call.options)

Idle == [busy |-> FALSE]

\* The coordinator after its constructor, the workers after their start.
CoordinatorInit ==
  /\ currentRequestId = 0
  /\ ongoingWorkerPromises = {}
  /\ workerPromiseHandlers = {}
  /\ calls = <<>>
  /\ inbox = [w \in Workers |-> <<>>]
  /\ running = [w \in Workers |-> Idle]
  /\ outbox = [w \in Workers |-> <<>>]

Init ==
  /\ CoordinatorInit
  /\ cryptoAvailable \in BOOLEAN
  /\ sampling = AtRest
  /\ classification = AtRest
  /\ validation = AtRest
  /\ component = AtRest
  /\ randomPool = AtRest
  /\ legacy = AtRest
  /\ construction = AtRest
  /\ app = AtRest
  /\ deduplication = AtRest

RequestIds == 1..currentRequestId

Settled(promise) == promise.state \in {"fulfilled", "rejected"}

\* await Promise.allSettled(previousPromises) of call r is over.
AllSettled(r) ==
  \A p \in calls[r].previousRequestIds :
    \A w \in Workers : Settled(calls[p].promises[w])

\* Fault variant: generatePassword does not wait for the worker promises of
\* the earlier requests.
ReadyAtOnce(r) == calls[r].phase = "waiting"

\* Call r is suspended in generatePassword and its continuation is queued.
Ready(r) == calls[r].phase = "waiting" /\ AllSettled(r)

(* --------------------- PasswordGeneratorUtil: calls ------------------- *)

\* Fault variant: generatePassword takes the current request id without
\* advancing it once a request has been made.
CallWithinSameId(limit, options, timeout) ==
  /\ Len(calls) < limit
  /\ currentRequestId' = IF currentRequestId = 0 THEN 1 ELSE currentRequestId
  /\ calls' = Append(calls,
       [options |-> options,
        timeout |-> timeout,
        previousRequestIds |-> ongoingWorkerPromises,
        phase |-> "dispatched",
        waited |-> 0,
        elapsed |-> 0,
        promises |-> [w \in Workers |->
                        [state |-> "rejected",
                         outcome |-> Outcome("CancelError", <<>>, currentRequestId', options)]],
        result |-> Outcome("CancelError", <<>>, currentRequestId', options)])
  /\ UNCHANGED <<ongoingWorkerPromises, workerPromiseHandlers, inbox, running,
                 outbox, cryptoAvailable,
                 nonCoordinatorVars>>

\* generatePassword, up to its first await: take the next request id and
\* collect the worker promises of the earlier requests.  A call can come at
\* any time: between a settlement that ends the wait of an earlier call and
\* that call's continuation it leaves the same state as just before the
\* settlement.
CallWithin(limit, options, timeout) ==
  /\ currentRequestId < limit
  /\ currentRequestId' = currentRequestId + 1
  /\ calls' = Append(calls,
       [options |-> options,
        timeout |-> timeout,
        previousRequestIds |-> ongoingWorkerPromises,
        phase |-> "waiting",
        waited |-> 0,
        elapsed |-> 0,
        promises |-> [w \in Workers |->
                        [state |-> "none",
                         outcome |-> Outcome("none", <<>>, currentRequestId + 1, options)]],
        result |-> Outcome("pending", <<>>, currentRequestId + 1, options)])
  /\ UNCHANGED <<ongoingWorkerPromises, workerPromiseHandlers, inbox, running,
                 outbox, cryptoAvailable,
                 nonCoordinatorVars>>

\* The calls of the callers that make MaxCalls calls at most.
Call(options, timeout) == CallWithin(MaxCalls, options, timeout)

\* Fault variant: startTime is read when generatePassword is entered, so the
\* time spent waiting for the earlier requests counts.
ElapsedSinceCall(r) == calls[r].waited + calls[r].elapsed

\* performance.now() - startTime in #generatePasswordOnWorker of request r.
Elapsed(r) == calls[r].elapsed

\* Fault variant: the loop of #generatePasswordOnWorker without its timeout.
LoopHeadNoTimeout(r) ==
  IF r # currentRequestId THEN "CancelError" ELSE "request"

\* Fault variant: the loop of #generatePasswordOnWorker does not compare the
\* request id with #currentRequestId.
LoopHeadNoCancel(r) ==
  IF ~(Elapsed(r) <= calls[r].timeout) THEN "TimeoutError" ELSE "request"

\* Fault variant: the loop of #generatePasswordOnWorker gives a request up as
\* superseded once a time step has been spent on it.
LoopHeadCancelAfterStep(r) ==
  IF ~(Elapsed(r) <= calls[r].timeout) THEN "TimeoutError"
  ELSE IF r # currentRequestId \/ Elapsed(r) > 0 THEN "CancelError"
  ELSE "request"

\* One pass through the head of the while loop of #generatePasswordOnWorker:
\* the timeout check, then the staleness check, then the next request.
LoopHead(r) ==
  IF ~(Elapsed(r) <= calls[r].timeout) THEN "TimeoutError"
  ELSE IF r # currentRequestId THEN "CancelError"
  ELSE "request"

\* Fault variant: the options of the first call are posted for every request.
RequestMessageStale(r) == [requestId |-> r, options |-> calls[1].options]

\* The message #requestPassword posts for request r.
RequestMessage(r) == [requestId |-> r, options |-> calls[r].options]

\* The promise of #generatePasswordOnWorker after a pass through the loop head.
LoopPromise(r, head) ==
  IF head = "request"
    THEN [state |-> "pending",
          outcome |-> Outcome("pending", <<>>, r, calls[r].options)]
    ELSE [state |-> "rejected", outcome |-> Failure(head, calls[r], r)]

\* The worker whose rejection is e.errors[0].
FirstWorker == 1

\* Fault variant: Promise.race, the first promise to settle decides the call.
PromiseRace(result, promises, settled) ==
  IF result.kind # "pending" THEN result
  ELSE IF settled.state \in {"fulfilled", "rejected"} THEN settled.outcome
  ELSE IF \A w \in Workers : promises[w].state = "rejected"
    THEN promises[FirstWorker].outcome
  ELSE result

\* Fault variant: the last error of the AggregateError is thrown.
PromiseAnyLastError(result, promises, settled) ==
  IF result.kind # "pending" THEN result
  ELSE IF settled.state = "fulfilled" THEN settled.outcome
  ELSE IF \A w \in Workers : promises[w].state = "rejected"
    THEN promises[PoolSize(HardwareConcurrency)].outcome
  ELSE result

\* Promise.any over the worker promises of a call, seen when `settled` (one of
\* them, or a promise that is not settled when none just did) changes: the
\* first fulfilment is returned; when all are rejected, e.errors[0] is thrown.
PromiseAny(result, promises, settled) ==
  IF result.kind # "pending" THEN result
  ELSE IF settled.state = "fulfilled" THEN settled.outcome
  ELSE IF \A w \in Workers : promises[w].state = "rejected"
    THEN promises[FirstWorker].outcome
  ELSE result

\* generatePassword after Promise.allSettled: forget the earlier requests,
\* start #generatePasswordOnWorker on every worker, race the promises.
Dispatch(r) ==
  /\ Ready(r)
  /\ \A q \in RequestIds : Ready(q) => r <= q
  /\ LET head     == LoopHead(r)
         promises == [w \in Workers |-> LoopPromise(r, head)]
     IN  /\ calls' = [calls EXCEPT
               ![r].phase = "dispatched",
               ![r].promises = promises,
               ![r].result = PromiseAny(@, promises, [state |-> "none"])]
         /\ workerPromiseHandlers' =
              IF head = "request"
                THEN workerPromiseHandlers \cup {<<r, w>> : w \in Workers}
                ELSE workerPromiseHandlers
         /\ inbox' =
              IF head = "request"
                THEN [w \in Workers |-> Append(inbox[w], RequestMessage(r))]
                ELSE inbox
  /\ ongoingWorkerPromises' =
       (ongoingWorkerPromises \ calls[r].previousRequestIds) \cup {r}
  /\ UNCHANGED <<currentRequestId, running, outbox, cryptoAvailable,
                 nonCoordinatorVars>>

(* ----------------- PasswordGeneratorUtil: worker messages -------------- *)

\* Fault variant: #handleWorkerMessage looks the handlers up under a key that
\* is never set and finds none.
HandlersNotFound(requestId, w) == {}

\* The handlers #handleWorkerMessage finds for a response of worker w.
Handlers(requestId, w) ==
  IF <<requestId, w>> \in workerPromiseHandlers THEN {<<requestId, w>>} ELSE {}

\* Fault variant: an error reported by the worker is treated as the end of a
\* time step, and the loop of #generatePasswordOnWorker goes round.
LoopAfterRetryError(r, response) ==
  IF response.responseCode = "OK"
    THEN [state |-> "fulfilled",
          outcome |-> Outcome("OK", response.password, response.requestId,
                              response.options)]
  ELSE LoopPromise(r, LoopHead(r))

\* Fault variant: the TimeoutError of one time step is thrown on, as any
\* other error is.
LoopAfterTimeoutFails(r, response) ==
  IF response.responseCode = "OK"
    THEN [state |-> "fulfilled",
          outcome |-> Outcome("OK", response.password, response.requestId,
                              response.options)]
  ELSE IF response.responseCode = "ERROR"
    THEN [state |-> "rejected", outcome |-> Failure("Error", calls[r], r)]
  ELSE [state |-> "rejected", outcome |-> Failure("TimeoutError", calls[r], r)]

\* The promise of #generatePasswordOnWorker for request r once the promise of
\* #requestPassword has settled with `response`: a password is returned, an
\* error other than a TimeoutError is thrown again, a TimeoutError leads
\* back to the loop head.
LoopAfter(r, response) ==
  IF response.responseCode = "OK"
    THEN [state |-> "fulfilled",
          outcome |-> Outcome("OK", response.password, response.requestId,
                              response.options)]
  ELSE IF response.responseCode = "ERROR"
    THEN [state |-> "rejected", outcome |-> Failure("Error", calls[r], r)]
  ELSE LoopPromise(r, LoopHead(r))

\* #handleWorkerMessage for the oldest response of worker w, with what runs
\* before the next task: the cleanup of #requestPassword, the rest of the
\* loop of #generatePasswordOnWorker, and Promise.any of generatePassword.
HandleWorkerMessage(w) ==
  /\ outbox[w] # <<>>
  /\ ~(\E r \in RequestIds : Ready(r))
  /\ LET response == Head(outbox[w])
         handlers == Handlers(response.requestId, w)
     IN  /\ outbox' = [outbox EXCEPT ![w] = Tail(@)]
         /\ IF handlers = {}
              THEN UNCHANGED <<calls, workerPromiseHandlers, inbox>>
              ELSE LET r       == response.requestId
                       promise == LoopAfter(r, response)
                       again   == promise.state = "pending"
                   IN  /\ calls' = [calls EXCEPT
                             ![r].promises[w] = promise,
                             ![r].result =
                               PromiseAny(@, [calls[r].promises EXCEPT ![w] = promise],
                                          promise)]
                       /\ workerPromiseHandlers' =
                            IF again THEN workerPromiseHandlers
                            ELSE workerPromiseHandlers \ handlers
                       /\ inbox' =
                            IF again
                              THEN [inbox EXCEPT ![w] = Append(@, RequestMessage(r))]
                              ELSE inbox
  /\ UNCHANGED <<currentRequestId, ongoingWorkerPromises, running, cryptoAvailable,
                 nonCoordinatorVars>>

(* ------------------- generate-password.worker.js ---------------------- *)

Response(responseCode, message, password) ==
  [responseCode |-> responseCode, requestId |-> message.requestId,
   password |-> password, options |-> message.options]

\* The message listener of worker w takes the next request; generatePassword
\* reads its start time.
WorkerReceive(w) ==
  /\ ~running[w].busy
  /\ inbox[w] # <<>>
  /\ running' = [running EXCEPT
       ![w] = [busy |-> TRUE, message |-> Head(inbox[w]), elapsed |-> 0]]
  /\ inbox' = [inbox EXCEPT ![w] = Tail(@)]
  /\ UNCHANGED <<currentRequestId, ongoingWorkerPromises, workerPromiseHandlers,
                 calls, outbox, cryptoAvailable,
                 nonCoordinatorVars>>

\* Fault variant: the time step is taken a thousand times too long.
SliceExpiredLate(elapsed) == elapsed >= PASSWORD_GENERATION_TIMESTEP * 1000

\* self.performance.now() - startTime >= timeout * 1000 in the worker, for a
\* request started `elapsed` time steps ago.
SliceExpired(elapsed) == elapsed >= PASSWORD_GENERATION_TIMESTEP

\* Fault variant: an exception of the random source is swallowed and the
\* loop goes round.
AttemptErrorUnanswered(message, elapsed, password) ==
  IF ~cryptoAvailable THEN "again"
  ELSE IF SliceExpired(elapsed) THEN "TIMEOUT"
  ELSE IF passwordIsValid(password, message.options) THEN "OK"
  ELSE "again"

\* What one pass of the do-while loop of generatePassword ends the request
\* `message` with: a thrown error when the random pool cannot be filled, null
\* when the time step is over, the candidate when it is valid; "again" when
\* the loop goes round.
Attempt(message, elapsed, password) ==
  IF ~cryptoAvailable THEN "ERROR"
  ELSE IF SliceExpired(elapsed) THEN "TIMEOUT"
  ELSE IF passwordIsValid(password, message.options) THEN "OK"
  ELSE "again"

\* One pass of the do-while loop on worker w, and the response the listener
\* posts when the loop ends.
WorkerAttempt(w) ==
  /\ running[w].busy
  /\ \E password \in Candidates[running[w].message.options] :
       LET code == Attempt(running[w].message, running[w].elapsed, password)
       IN  /\ code # "again"
           /\ outbox' = [outbox EXCEPT
                ![w] = Append(@, Response(code, running[w].message,
                                          IF code = "OK" THEN password ELSE <<>>))]
  /\ running' = [running EXCEPT ![w] = Idle]
  /\ UNCHANGED <<currentRequestId, ongoingWorkerPromises, workerPromiseHandlers,
                 calls, inbox, cryptoAvailable,
                 nonCoordinatorVars>>

\* The message listener of worker w when the first candidate of a request is
\* built and checked before the clock moves: the request is taken and the
\* first pass of the do-while loop is made in the same time step.
WorkerReceivePrompt(w) ==
  /\ ~running[w].busy
  /\ inbox[w] # <<>>
  /\ inbox' = [inbox EXCEPT ![w] = Tail(@)]
  /\ \E password \in Candidates[Head(inbox[w]).options] :
       LET message == Head(inbox[w])
           code    == Attempt(message, 0, password)
       IN  IF code = "again"
             THEN /\ running' = [running EXCEPT
                       ![w] = [busy |-> TRUE, message |-> message, elapsed |-> 0]]
                  /\ UNCHANGED outbox
             ELSE /\ outbox' = [outbox EXCEPT
                       ![w] = Append(@, Response(code, message,
                                                 IF code = "OK" THEN password ELSE <<>>))]
                  /\ UNCHANGED running
  /\ UNCHANGED <<currentRequestId, ongoingWorkerPromises, workerPromiseHandlers,
                 calls, cryptoAvailable,
                 nonCoordinatorVars>>

(* ------------------------------- clock -------------------------------- *)

Min(a, b) == IF a < b THEN a ELSE b

\* Some promise of call r is still that of a running #generatePasswordOnWorker.
Racing(r) == \E w \in Workers : calls[r].promises[w].state = "pending"

\* One time step passes.  A call records the time it has waited for the worker
\* promises of earlier requests (a queued continuation does not wait) and, from its
\* dispatch on, the time its worker loops have run (never read again above
\* timeout + 1); a worker records the time spent on its request.
Tick ==
  /\ calls' = [r \in RequestIds |->
       IF calls[r].phase = "waiting" /\ ~AllSettled(r)
         THEN [calls[r] EXCEPT !.waited = Min(@ + 1, MaxWaited)]
       ELSE IF Racing(r)
         THEN [calls[r] EXCEPT !.elapsed = Min(@ + 1, calls[r].timeout + 1)]
       ELSE calls[r]]
  /\ running' = [w \in Workers |->
       IF running[w].busy
         THEN [running[w] EXCEPT
                 !.elapsed = Min(@ + 1, PASSWORD_GENERATION_TIMESTEP)]
         ELSE running[w]]
  /\ UNCHANGED <<currentRequestId, ongoingWorkerPromises, workerPromiseHandlers,
                 inbox, outbox, cryptoAvailable,
                 nonCoordinatorVars>>

(* ----------------- getRandomByteInRange, byte by byte ------------------ *)

\* The calls of getRandomByteInRange: min within 0..MaxMin, max up to 255.
SamplerRanges ==
  {range \in (0..MaxMin) \X Byte : range[1] <= range[2]}

\* getRandomByteInRange(min, max) is entered: let randomUint8 = 0.
Sampling(min, max) ==
  [state |-> "drawing", min |-> min, max |-> max, randomUint8 |-> 0, value |-> -1]

\* One pass of the do-while loop of getRandomByteInRange: getRandomByte()
\* hands out randomByte, the next byte of the pool, whatever it is; the loop
\* goes round or the function returns.
Draw(randomByte) ==
  /\ sampling.state = "drawing"
  /\ LET bound == sampling.max - sampling.min + 1
     IN  sampling' =
           IF Redraw(randomByte, bound)
             THEN [sampling EXCEPT !.randomUint8 = randomByte]
             ELSE [sampling EXCEPT
                     !.randomUint8 = randomByte,
                     !.state = "returned",
                     !.value = InRange(randomByte, sampling.min, bound)]
  /\ UNCHANGED <<coordinatorVars, classification, validation, component, randomPool, legacy,
                 construction, app, deduplication>>

SamplerInit ==
  /\ CoordinatorInit
  /\ cryptoAvailable = TRUE
  /\ sampling \in {Sampling(range[1], range[2]) : range \in SamplerRanges}
  /\ classification = AtRest
  /\ validation = AtRest
  /\ component = AtRest
  /\ randomPool = AtRest
  /\ legacy = AtRest
  /\ construction = AtRest
  /\ app = AtRest
  /\ deduplication = AtRest

SamplerNext == \E randomByte \in Byte : Draw(randomByte)

\* A worker inside getRandomByteInRange, for every call in SamplerRanges.
SamplerSpec == SamplerInit /\ [][SamplerNext]_vars

\* generateRandomString(length, characters) is entered for a string of
\* `size` characters: i = 0, and getRandomByteInRange(0, size - 1) is called.
StringSampling(length, size) ==
  [state |-> "drawing", min |-> 0, max |-> size - 1, randomUint8 |-> 0,
   value |-> -1, length |-> length, i |-> 0]

\* The least byte; it is redrawn only when every byte is, the test being
\* randomUint8 > limit - 1.
LeastByte == 0

\* One pass of the do-while loop that ends it with the least byte.
Accept ==
  /\ sampling.state = "drawing"
  /\ ~Redraw(LeastByte, sampling.max - sampling.min + 1)
  /\ Draw(LeastByte)

\* The for loop of generateRandomString after getRandomByteInRange has
\* returned: the character is appended, i += 1, and either the next call of
\* getRandomByteInRange is made or the string is returned.
AppendCharacter ==
  /\ sampling.state = "returned"
  /\ sampling' =
       IF sampling.i + 1 < sampling.length
         THEN [sampling EXCEPT
                 !.state = "drawing", !.randomUint8 = 0, !.value = -1,
                 !.i = @ + 1]
         ELSE [sampling EXCEPT !.state = "complete", !.i = @ + 1]
  /\ UNCHANGED <<coordinatorVars, classification, validation, component,
                 randomPool, legacy,
                 construction, app, deduplication>>

StringInit ==
  /\ CoordinatorInit
  /\ cryptoAvailable = TRUE
  /\ sampling \in {StringSampling(MaxStringLength, size) : size \in 1..256}
  /\ classification = AtRest
  /\ validation = AtRest
  /\ component = AtRest
  /\ randomPool = AtRest
  /\ legacy = AtRest
  /\ construction = AtRest
  /\ app = AtRest
  /\ deduplication = AtRest

StringNext ==
  \/ \E randomByte \in Byte : Draw(randomByte)
  \/ AppendCharacter

\* A worker inside generateRandomString, for every number of characters up
\* to 256; the random source is fair in that the least byte comes up in the
\* end whenever it would be accepted.
StringSpec ==
  /\ StringInit /\ [][StringNext]_vars
  /\ WF_vars(Accept) /\ WF_vars(AppendCharacter)

(* ------------------------------ randomPool ----------------------------- *)

\* The bytes crypto.getRandomValues writes: the least and the greatest.
PoolBytes == {0, 255}

\* A byte of the buffer; fill is the number of the regenerateRandomPool call
\* that wrote it, 0 for the zero a new Uint8Array holds.
PoolByte(byte, fill) == [byte |-> byte, fill |-> fill]

\* Fault variant: the pool starts with nothing read.
InitialNumReadZero(length) == 0

\* numRead of the new pool: the length of the buffer.
InitialNumRead(length) == length

\* randomPool when the worker starts, for a buffer of `length` bytes;
\* regenerated and requested count the calls of regenerateRandomPool and of
\* getRandomByte, randomByte is what getRandomByte returned last.
RandomPool(length) ==
  [state |-> "pool",
   buffer |-> [position \in 1..length |-> PoolByte(0, 0)],
   numRead |-> InitialNumRead(length),
   regenerated |-> 0,
   requested |-> 0,
   randomByte |-> PoolByte(0, 0)]

\* regenerateRandomPool: getRandomValues overwrites the whole buffer with
\* `bytes`, numRead becomes 0.
regenerateRandomPool(pool, bytes) ==
  [pool EXCEPT
     !.buffer = [position \in 1..Len(pool.buffer) |->
                   PoolByte(bytes[position], pool.regenerated + 1)],
     !.numRead = 0,
     !.regenerated = @ + 1]

\* getRandomByte on a pool whose exhausted buffer getRandomValues would fill
\* with `bytes`.
getRandomByte(pool, bytes) ==
  LET current == IF pool.numRead >= Len(pool.buffer)
                   THEN regenerateRandomPool(pool, bytes)
                   ELSE pool
  IN  [current EXCEPT
         !.randomByte = current.buffer[current.numRead + 1],
         !.numRead = @ + 1,
         !.requested = @ + 1]

\* The worker calls getRandomByte.
GetRandomByte ==
  /\ randomPool.state = "pool"
  /\ randomPool.requested < MaxBytes
  /\ \E bytes \in [1..Len(randomPool.buffer) -> PoolBytes] :
       randomPool' = getRandomByte(randomPool, bytes)
  /\ UNCHANGED <<coordinatorVars, sampling, classification, validation,
                 component, legacy,
                 construction, app, deduplication>>

PoolInit ==
  /\ CoordinatorInit
  /\ cryptoAvailable = TRUE
  /\ sampling = AtRest
  /\ classification = AtRest
  /\ validation = AtRest
  /\ component = AtRest
  /\ randomPool \in {RandomPool(length) : length \in 1..MaxPoolLength}
  /\ legacy = AtRest
  /\ construction = AtRest
  /\ app = AtRest
  /\ deduplication = AtRest

PoolNext == GetRandomByte

\* A worker that draws bytes from its random pool, for every buffer length up
\* to MaxPoolLength.
PoolSpec == PoolInit /\ [][PoolNext]_vars

(* ------------- the earlier PasswordGeneratorUtil (cancelling) ---------- *)

\* The values of navigator.hardwareConcurrency the earlier util is built
\* with: 1, and 0 for a browser that does not report it.
LegacyHardwareConcurrency == {0, 1}

\* The earlier util after its constructor, with its workers.  generations[g]
\* is the g-th generation started: the promises of _generatePasswordOnWorker
\* (loops), the promise of Promise.race, the position of the async function
\* behind generatePromise, and the reactions on generatePromise.  cancels[c]
\* is the c-th async function of _cancel.  promises, generatePromise and
\* cancelPromise hold the number of a generation or cancel, 0 for null;
\* resolvePassword[i] holds the generation whose loop registered the handlers
\* of worker i.  jobs is the microtask queue.
LegacyUtil(size) ==
  [state |-> "legacy",
   size |-> size,
   latestRequest |-> 0,
   cancelling |-> FALSE,
   promises |-> 0,
   generatePromise |-> 0,
   cancelPromise |-> 0,
   resolvePassword |-> [i \in 1..size |-> 0],
   generations |-> <<>>,
   cancels |-> <<>>,
   calls |-> <<>>,
   outstanding |-> [i \in 1..size |-> 0],
   responses |-> [i \in 1..size |-> <<>>],
   jobs |-> <<>>]

\* A microtask: the continuation of an await, or a promise reaction.
Job(kind, a, b, code) == [kind |-> kind, a |-> a, b |-> b, code |-> code]

Enqueue(s, job) == [s EXCEPT !.jobs = Append(@, job)]

EnqueueAll(s, jobs) == [s EXCEPT !.jobs = @ \o jobs]

\* await this.promises[i] in the async function of _cancel number c.
AwaitPromise(s, c) ==
  LET g == s.promises
      i == s.cancels[c].index
  IN  IF s.generations[g].loops[i] # "awaiting"
        THEN Enqueue(s, Job("cancel", c, 0, ""))
        ELSE [s EXCEPT !.cancels[c].awaitingG = g, !.cancels[c].awaitingI = i]

\* The promise of _generatePasswordOnWorker for worker i of generation g
\* settles: the reaction of Promise.race was registered first, that of an
\* await in _cancel after it.
SettleLoop(s, g, i, outcome) ==
  LET waiting == {c \in 1..Len(s.cancels) :
                    s.cancels[c].awaitingG = g /\ s.cancels[c].awaitingI = i}
      s1 == Enqueue([s EXCEPT !.generations[g].loops[i] = outcome],
                    Job("race", g, i, ""))
  IN  IF waiting = {} THEN s1
      ELSE LET c == CHOOSE c \in waiting : \A d \in waiting : c <= d
           IN  Enqueue([s1 EXCEPT !.cancels[c].awaitingG = 0,
                                  !.cancels[c].awaitingI = 0],
                       Job("cancel", c, 0, ""))

\* generatePassword when generatePromise is null: _generatePasswordOnWorker
\* is called for every worker and runs to its first await (the timeout check
\* passes, the cancelling check throws or the request is posted), the async
\* function behind generatePromise runs to await Promise.race, and
\* generatePromise is returned.
StartGeneration(s, k) ==
  LET g == Len(s.generations) + 1
      outcome == IF s.cancelling THEN "CancelError" ELSE "awaiting"
      s1 == [s EXCEPT
               !.promises = g,
               !.generatePromise = g,
               !.generations = Append(@,
                  [loops |-> [i \in 1..s.size |-> outcome],
                   race |-> "pending", position |-> "race",
                   reactions |-> <<>>]),
               !.resolvePassword =
                  IF s.cancelling THEN @ ELSE [i \in 1..s.size |-> g],
               !.outstanding =
                  IF s.cancelling THEN @
                  ELSE [i \in 1..s.size |-> s.outstanding[i] + 1],
               !.calls[k].position = "started",
               !.calls[k].generation = g]
      races == IF s.cancelling
                 THEN [i \in 1..s.size |-> Job("race", g, i, "")]
                 ELSE <<>>
  IN  Enqueue(EnqueueAll(s1, races), Job("adopt", g, k, ""))

\* _cancel() called by `who` (a call of generatePassword or the async function
\* of a generation), up to the return of its promise.  When promises is null
\* the inner async function ends at once and sets cancelPromise to null
\* before the assignment of its promise to cancelPromise.
Cancel(s, who, id) ==
  LET c == Len(s.cancels) + 1
      started(state) ==
        [state |-> state, index |-> 1, awaitingG |-> 0, awaitingI |-> 0,
         reactions |-> <<>>]
  IN  IF s.cancelPromise # 0
        THEN Enqueue(s, Job("thenable", s.cancelPromise, id, who))
      ELSE IF s.promises # 0
        THEN Enqueue(
               AwaitPromise(
                 [s EXCEPT !.cancelling = TRUE,
                           !.cancelPromise = c,
                           !.cancels = Append(@, started("pending"))], c),
               Job("thenable", c, id, who))
      ELSE Enqueue([s EXCEPT !.cancelPromise = c,
                             !.cancels = Append(@, started("resolved"))],
                   Job("thenable", c, id, who))

\* The promise of generatePassword call k settles with `outcome`, at once or,
\* for a call that called itself, after one reaction for each level.
SettleCall(s, k, g) ==
  IF s.calls[k].hops > 0
    THEN Enqueue([s EXCEPT !.calls[k].hops = @ - 1], Job("settle", g, k, ""))
    ELSE [s EXCEPT
            !.calls[k].position = "settled",
            !.calls[k].outcome =
               IF g = 0 THEN "CancelError" ELSE s.generations[g].race]

\* The rest of _generatePasswordOnWorker for worker i of generation g once
\* the promise of its request has settled with the response `code`: the
\* finally block clears the handlers; a password is returned, an error other
\* than a TimeoutError is thrown again, and after a TimeoutError the loop
\* checks the timeout, then the cancelling flag, and posts the next request.
LoopContinue(s, g, i, code, timedOut) ==
  LET s1 == [s EXCEPT !.resolvePassword[i] = 0]
  IN  IF code = "OK" THEN SettleLoop(s1, g, i, "OK")
      ELSE IF code = "ERROR" THEN SettleLoop(s1, g, i, "Error")
      ELSE IF timedOut THEN SettleLoop(s1, g, i, "TimeoutError")
      ELSE IF s.cancelling THEN SettleLoop(s1, g, i, "CancelError")
      ELSE [s1 EXCEPT !.resolvePassword[i] = g, !.outstanding[i] = @ + 1]

\* The async function of _cancel number c after an await: the next promise of
\* this.promises is awaited, or promises, cancelling and cancelPromise are
\* reset and the promise of the function resolves.
CancelContinue(s, c) ==
  LET index == s.cancels[c].index + 1
      reactions == s.cancels[c].reactions
  IN  IF s.promises = 0
        THEN [s EXCEPT !.cancels[c].state = "rejected"]
      ELSE IF index <= s.size
        THEN AwaitPromise([s EXCEPT !.cancels[c].index = index], c)
      ELSE EnqueueAll(
             [s EXCEPT !.promises = 0,
                       !.cancelling = FALSE,
                       !.cancelPromise = 0,
                       !.cancels[c].state = "resolved",
                       !.cancels[c].reactions = <<>>],
             [n \in 1..Len(reactions) |->
                Job("wrapper", 0, reactions[n].b, reactions[n].code)])

\* A reaction on generatePromise number g: run when it has settled.
OnGenerated(s, g, job) ==
  IF g = 0 \/ s.generations[g].position = "done"
    THEN Enqueue(s, job)
    ELSE [s EXCEPT !.generations[g].reactions = Append(@, job)]

\* generatePassword call k after try { await this.generatePromise }: start a
\* generation when none runs, else call generatePassword again when no
\* later call was made, else throw a CancelError.
AfterGenerated(s, k) ==
  IF s.generatePromise = 0 THEN StartGeneration(s, k)
  ELSE IF s.latestRequest = s.calls[k].request
    THEN Cancel([s EXCEPT !.calls[k].position = "cancel",
                          !.calls[k].hops = @ + 1], "call", k)
  ELSE SettleCall(s, k, 0)

\* The head of the microtask queue runs; `s` is the state without it.
RunJob(s, job, timedOut) ==
  CASE job.kind = "loop" -> LoopContinue(s, job.a, job.b, job.code, timedOut)
    [] job.kind = "race" ->
         IF s.generations[job.a].race = "pending"
           THEN Enqueue([s EXCEPT !.generations[job.a].race =
                                     s.generations[job.a].loops[job.b]],
                        Job("gp", job.a, 0, ""))
           ELSE s
    [] job.kind = "gp" ->
         Cancel([s EXCEPT !.generations[job.a].position = "cancel"],
                "gp", job.a)
    [] job.kind = "cancel" -> CancelContinue(s, job.a)
    [] job.kind = "thenable" ->
         IF s.cancels[job.a].state = "resolved"
           THEN Enqueue(s, Job("wrapper", 0, job.b, job.code))
           ELSE [s EXCEPT !.cancels[job.a].reactions = Append(@, job)]
    [] job.kind = "wrapper" -> Enqueue(s, Job("resume", 0, job.b, job.code))
    [] job.kind = "resume" /\ job.code = "gp" ->
         EnqueueAll([s EXCEPT !.generatePromise = 0,
                              !.generations[job.b].position = "done",
                              !.generations[job.b].reactions = <<>>],
                    s.generations[job.b].reactions)
    [] job.kind = "resume" /\ job.code = "call" ->
         OnGenerated([s EXCEPT !.calls[job.b].position = "generate"],
                     s.generatePromise, Job("generated", 0, job.b, ""))
    [] job.kind = "generated" -> AfterGenerated(s, job.b)
    [] job.kind = "adopt" -> OnGenerated(s, job.a, Job("settle", job.a, job.b, ""))
    [] job.kind = "settle" -> SettleCall(s, job.b, job.a)

\* The codes of a worker's response.
ResponseCodes == {"OK", "TIMEOUT", "ERROR"}

\* generatePassword is called from a task: latestRequest is advanced, and
\* the running generation is cancelled or a generation is started.
LegacyGeneratePassword ==
  /\ legacy.state = "legacy"
  /\ legacy.jobs = <<>>
  /\ Len(legacy.calls) < MaxLegacyCalls
  /\ LET k == Len(legacy.calls) + 1
         s == [legacy EXCEPT
                 !.latestRequest = @ + 1,
                 !.calls = Append(@, [request |-> legacy.latestRequest + 1,
                                      position |-> "cancel", hops |-> 0,
                                      generation |-> 0, outcome |-> "pending"])]
     IN  legacy' = IF legacy.generatePromise # 0
                     THEN Cancel(s, "call", k)
                     ELSE StartGeneration(s, k)
  /\ UNCHANGED <<coordinatorVars, sampling, classification, validation,
                 component, randomPool,
                 construction, app, deduplication>>

\* The next microtask runs; the timeout check of a worker loop finds the
\* timeout elapsed or not.
LegacyMicrotask ==
  /\ legacy.state = "legacy"
  /\ legacy.jobs # <<>>
  /\ \E timedOut \in BOOLEAN :
       legacy' = RunJob([legacy EXCEPT !.jobs = Tail(@)], Head(legacy.jobs),
                        timedOut)
  /\ UNCHANGED <<coordinatorVars, sampling, classification, validation,
                 component, randomPool,
                 construction, app, deduplication>>

\* Worker i answers its oldest request.
LegacyWorkerAnswer(i, code) ==
  /\ legacy.state = "legacy"
  /\ legacy.outstanding[i] > Len(legacy.responses[i])
  /\ legacy' = [legacy EXCEPT !.responses[i] = Append(@, code)]
  /\ UNCHANGED <<coordinatorVars, sampling, classification, validation,
                 component, randomPool,
                 construction, app, deduplication>>

\* _handleWorkerMessage for the oldest response of worker i, run as a task:
\* the promise of the request settles and the loop's continuation is queued.
LegacyHandleWorkerMessage(i) ==
  /\ legacy.state = "legacy"
  /\ legacy.jobs = <<>>
  /\ legacy.responses[i] # <<>>
  /\ LET g == legacy.resolvePassword[i]
         s == [legacy EXCEPT !.responses[i] = Tail(@),
                             !.outstanding[i] = @ - 1]
     IN  legacy' = IF g = 0 THEN s
                   ELSE Enqueue(s, Job("loop", g, i, Head(legacy.responses[i])))
  /\ UNCHANGED <<coordinatorVars, sampling, classification, validation,
                 component, randomPool,
                 construction, app, deduplication>>

LegacyInit ==
  /\ CoordinatorInit
  /\ cryptoAvailable = TRUE
  /\ sampling = AtRest
  /\ classification = AtRest
  /\ validation = AtRest
  /\ component = AtRest
  /\ randomPool = AtRest
  /\ construction = AtRest
  /\ app = AtRest
  /\ deduplication = AtRest
  /\ legacy \in {LegacyUtil(PoolSize(hardwareConcurrency)) :
                   hardwareConcurrency \in LegacyHardwareConcurrency}

LegacyNext ==
  \/ LegacyGeneratePassword
  \/ LegacyMicrotask
  \/ \E i \in 1..legacy.size, code \in ResponseCodes : LegacyWorkerAnswer(i, code)
  \/ \E i \in 1..legacy.size : LegacyHandleWorkerMessage(i)

\* The earlier util under any interleaving of calls, worker answers and
\* timeouts.
LegacySpec == LegacyInit /\ [][LegacyNext]_vars

(* ------------------------ classifyCharacter, called ------------------- *)

\* The character codes classifyCharacter is called with.
CharCodes == 0..MaxCharCode

\* classifyCharacter(character) is called, or called again after it returned.
Classify(character) ==
  /\ classification.state \in {"called", "returned"}
  /\ classification.character = character
  /\ classification' =
       [state |-> "returned", character |-> character,
        classification |-> classifyCharacter(character)]
  /\ UNCHANGED <<coordinatorVars, sampling, validation, component, randomPool, legacy,
                 construction, app, deduplication>>

ClassifierInit ==
  /\ CoordinatorInit
  /\ cryptoAvailable = TRUE
  /\ sampling = AtRest
  /\ classification \in
       {[state |-> "called", character |-> character, classification |-> "pending"] :
          character \in CharCodes}
  /\ validation = AtRest
  /\ component = AtRest
  /\ randomPool = AtRest
  /\ legacy = AtRest
  /\ construction = AtRest
  /\ app = AtRest
  /\ deduplication = AtRest

ClassifierNext == \E character \in CharCodes : Classify(character)

\* classifyCharacter, for every character code in CharCodes.
ClassifierSpec == ClassifierInit /\ [][ClassifierNext]_vars

(* ------------------------- passwordIsValid, called -------------------- *)

\* The characters of the passwords passwordIsValid is called with: the first
\* uppercase letter, lowercase letter, digit and default symbol.
ValidatorChars == <<65, 97, 48, 33>>

\* The passwords passwordIsValid is called with.
ValidatorPasswords ==
  UNION {[1..length -> Range(ValidatorChars)] : length \in 1..MaxCandidateLen}

\* The values of minDigitProportion and minSymbolProportion it is called with.
ProportionSet == {Proportion(0, 1), Proportion(1, 2), Proportion(1, 1)}

\* The values of maxCaseVariance it is called with: (n - 1) / (n + 1) for n
\* from 1 to MaxRatio, and 1.
CaseVarianceSet ==
  {Proportion(n - 1, n + 1) : n \in 1..MaxRatio} \cup {Proportion(1, 1)}

\* The options passwordIsValid is called with, for a password of a length.
ValidatorOptions(length) ==
  [passwordLength : {length},
   minDigitProportion : ProportionSet,
   minSymbolProportion : ProportionSet,
   maxCaseVariance : CaseVarianceSet,
   useLowercase : BOOLEAN, useUppercase : BOOLEAN,
   useDigits : BOOLEAN, useSymbols : BOOLEAN,
   symbols : {<<>>, SymbolChars}]

\* passwordIsValid(password, options) runs and returns.
Validate ==
  /\ validation.state = "called"
  /\ validation' =
       [validation EXCEPT
          !.state = "returned",
          !.valid = passwordIsValid(validation.password, validation.options)]
  /\ UNCHANGED <<coordinatorVars, sampling, classification, component, randomPool, legacy,
                 construction, app, deduplication>>

ValidatorInit ==
  /\ CoordinatorInit
  /\ cryptoAvailable = TRUE
  /\ sampling = AtRest
  /\ classification = AtRest
  /\ \E password \in ValidatorPasswords :
       \E options \in ValidatorOptions(Len(password)) :
         validation = [state |-> "called", password |-> password,
                       options |-> options, valid |-> FALSE]
  /\ component = AtRest
  /\ randomPool = AtRest
  /\ legacy = AtRest
  /\ construction = AtRest
  /\ app = AtRest
  /\ deduplication = AtRest

ValidatorNext == Validate

\* passwordIsValid, for every password and options above.
ValidatorSpec == ValidatorInit /\ [][ValidatorNext]_vars

(* ------------------------ PasswordGenerator component ----------------- *)

\* The password generatePassword returns to a request of the component, told
\* apart from the passwords of the other requests by its one character.
PasswordOf(request) == <<47 + request>>

\* this.state after the setState of onGeneratePassword before the await.
StateLoading(state) ==
  [state EXCEPT !.password = <<>>, !.loading = TRUE, !.error = FALSE]

\* Fault variant: a returned password is shown whatever request it is for.
AfterGenerateUnchecked(state, request, generationRequest, kind) ==
  IF kind = "OK"
    THEN [state EXCEPT !.password = PasswordOf(request), !.loading = FALSE]
  ELSE IF kind # "CancelError"
    THEN [state EXCEPT !.password = <<>>, !.loading = FALSE, !.error = TRUE,
                       !.errorMessage = kind, !.errorDialogOpen = TRUE]
  ELSE state

\* Fault variant: a CancelError is shown like any other error.
AfterGenerateCancelShown(state, request, generationRequest, kind) ==
  IF kind = "OK"
    THEN IF request = generationRequest
           THEN [state EXCEPT !.password = PasswordOf(request), !.loading = FALSE]
           ELSE state
  ELSE [state EXCEPT !.password = <<>>, !.loading = FALSE, !.error = TRUE,
                     !.errorMessage = kind, !.errorDialogOpen = TRUE]

\* Fault variant: a returned password is displayed without clearing the
\* loading flag.
AfterGenerateLoadingKept(state, request, generationRequest, kind) ==
  IF kind = "OK"
    THEN IF request = generationRequest
           THEN [state EXCEPT !.password = PasswordOf(request)]
           ELSE state
  ELSE IF kind # "CancelError"
    THEN [state EXCEPT !.password = <<>>, !.loading = FALSE, !.error = TRUE,
                       !.errorMessage = kind, !.errorDialogOpen = TRUE]
  ELSE state

\* this.state after the rest of onGeneratePassword has run for `request`,
\* whose generatePassword call returned a password (kind "OK") or threw the
\* error named kind; the message of the error stands for itself.
AfterGenerate(state, request, generationRequest, kind) ==
  IF kind = "OK"
    THEN IF request = generationRequest
           THEN [state EXCEPT !.password = PasswordOf(request), !.loading = FALSE]
           ELSE state
  ELSE IF kind # "CancelError"
    THEN [state EXCEPT !.password = <<>>, !.loading = FALSE, !.error = TRUE,
                       !.errorMessage = kind, !.errorDialogOpen = TRUE]
  ELSE state

\* onGeneratePassword, up to its await: a new request is numbered, the
\* component shows that it is loading, generatePassword is called.
OnGeneratePassword ==
  /\ component.generationRequest < MaxRequests
  /\ component' =
       [state |-> StateLoading(component.state),
        generationRequest |-> component.generationRequest + 1,
        promises |-> Append(component.promises, [kind |-> "pending", late |-> FALSE])]
  /\ UNCHANGED <<coordinatorVars, sampling, classification, validation, randomPool, legacy,
                 construction, app, deduplication>>

\* The generatePassword call of a request settles, with a password or one of
\* its errors (a CancelError only for a request that is no longer the last),
\* and onGeneratePassword runs to its end.
Settle(request, kind) ==
  /\ request \in 1..component.generationRequest
  /\ component.promises[request].kind = "pending"
  /\ kind = "CancelError" => request < component.generationRequest
  /\ component' =
       [component EXCEPT
          !.state = AfterGenerate(@, request, component.generationRequest, kind),
          !.promises[request] =
             [kind |-> kind, late |-> request < component.generationRequest]]
  /\ UNCHANGED <<coordinatorVars, sampling, classification, validation, randomPool, legacy,
                 construction, app, deduplication>>

\* closeErrorDialog: the user closes the error dialog.
CloseErrorDialog ==
  /\ component.state.errorDialogOpen
  /\ component' = [component EXCEPT !.state.errorDialogOpen = FALSE]
  /\ UNCHANGED <<coordinatorVars, sampling, classification, validation, randomPool, legacy,
                 construction, app, deduplication>>

\* The component after its constructor.
ComponentInit ==
  /\ CoordinatorInit
  /\ cryptoAvailable = TRUE
  /\ sampling = AtRest
  /\ classification = AtRest
  /\ validation = AtRest
  /\ component =
       [state |-> [password |-> <<>>, loading |-> FALSE, error |-> FALSE,
                   errorDialogOpen |-> FALSE, errorMessage |-> "null"],
        generationRequest |-> 0,
        promises |-> <<>>]
  /\ randomPool = AtRest
  /\ legacy = AtRest
  /\ construction = AtRest
  /\ app = AtRest
  /\ deduplication = AtRest

\* What a generatePassword call settles with.
SettleKinds == {"OK", "CancelError", "TimeoutError", "Error"}

ComponentNext ==
  \/ OnGeneratePassword
  \/ \E request \in 1..MaxRequests, kind \in SettleKinds : Settle(request, kind)
  \/ CloseErrorDialog

\* The component, with generatePassword calls that settle in any order.
ComponentSpec == ComponentInit /\ [][ComponentNext]_vars

\* The component with a coordinator that settles every generatePassword call.
ComponentLiveSpec ==
  /\ ComponentSpec
  /\ \A request \in 1..MaxRequests :
       WF_vars(\E kind \in SettleKinds : Settle(request, kind))

(* --------------------------- specification ---------------------------- *)

Next ==
  \/ \E options \in OptionSet, timeout \in TimeoutSet : Call(options, timeout)
  \/ \E r \in RequestIds : Dispatch(r)
  \/ \E w \in Workers : HandleWorkerMessage(w)
  \/ \E w \in Workers : WorkerReceive(w)
  \/ \E w \in Workers : WorkerAttempt(w)
  \/ Tick

Spec == Init /\ [][Next]_vars

\* The scheduling of the browser: as long as a queued continuation, a message
\* event, a worker or the clock can make a step, a step is made.
LiveSpec == Spec /\ WF_vars(Next)

\* The same system when a worker builds and checks the first candidate of a
\* request within the time step in which it takes the request.
PromptNext ==
  \/ \E options \in OptionSet, timeout \in TimeoutSet : Call(options, timeout)
  \/ \E r \in RequestIds : Dispatch(r)
  \/ \E w \in Workers : HandleWorkerMessage(w)
  \/ \E w \in Workers : WorkerReceivePrompt(w)
  \/ \E w \in Workers : WorkerAttempt(w)
  \/ Tick

PromptSpec == Init /\ [][PromptNext]_vars /\ WF_vars(PromptNext)

\* The options of callers that overlap up to MaxOverlap calls: all the same,
\* met by some candidates and not by others.
OverlapOptionSet == {OptionsBalanced}

\* The same system with up to MaxOverlap calls, all with the same options and
\* the longest timeout.
OverlapNext ==
  \/ \E options \in OverlapOptionSet : CallWithin(MaxOverlap, options, MaxTimeout)
  \/ \E r \in RequestIds : Dispatch(r)
  \/ \E w \in Workers : HandleWorkerMessage(w)
  \/ \E w \in Workers : WorkerReceive(w)
  \/ \E w \in Workers : WorkerAttempt(w)
  \/ Tick

OverlapSpec == Init /\ [][OverlapNext]_vars

\* The same system with callers that ask for an exact balance of the cases.
ExactNext ==
  \/ \E options \in ExactOptionSet, timeout \in TimeoutSet : Call(options, timeout)
  \/ \E r \in RequestIds : Dispatch(r)
  \/ \E w \in Workers : HandleWorkerMessage(w)
  \/ \E w \in Workers : WorkerReceive(w)
  \/ \E w \in Workers : WorkerAttempt(w)
  \/ Tick

ExactSpec == Init /\ [][ExactNext]_vars /\ WF_vars(ExactNext)

(* ---------------------- removeDuplicateCharacters --------------------- *)

\* charSet.add(character): a Set keeps its elements in insertion order, so it
\* is held as the sequence of its elements.
SetAdd(charSet, character) ==
  IF \E k \in 1..Len(charSet) : charSet[k] = character
    THEN charSet
    ELSE Append(charSet, character)

\* The for loop of removeDuplicateCharacters from index i: str[i], one UTF-16
\* code unit, is added to charSet.
RECURSIVE AddCharacters(_, _, _)
AddCharacters(str, i, charSet) ==
  IF i > Len(str) THEN charSet
  ELSE AddCharacters(str, i + 1, SetAdd(charSet, str[i]))

\* charSet.forEach: the elements are appended to strUnique in insertion order.
RECURSIVE Concatenate(_, _, _)
Concatenate(charSet, k, strUnique) ==
  IF k > Len(charSet) THEN strUnique
  ELSE Concatenate(charSet, k + 1, Append(strUnique, charSet[k]))

\* Fault variant: only a character equal to the one before it is dropped.
RemoveRepeatedCharacters(str) ==
  LET Kept == {i \in 1..Len(str) : i = 1 \/ str[i] # str[i - 1]}
      Nth(n) == CHOOSE i \in Kept : Cardinality({j \in Kept : j <= i}) = n
  IN  [n \in 1..Cardinality(Kept) |-> str[Nth(n)]]

removeDuplicateCharacters(str) ==
  Concatenate(AddCharacters(str, 1, <<>>), 1, <<>>)

\* The characters removeDuplicateCharacters is called with: symbols, a letter
\* and a digit.
InputCharacters == {33, 37, 64, 97, 49}

\* The strings of InputCharacters of a length.
InputStrings(length) == [1..length -> InputCharacters]

\* A call of removeDuplicateCharacters with its argument.
Deduplicating(str) == [state |-> "called", str |-> str, strUnique |-> <<>>]

\* The call returns.
Deduplicate ==
  /\ deduplication.state = "called"
  /\ deduplication' =
       [deduplication EXCEPT
          !.state = "returned",
          !.strUnique = removeDuplicateCharacters(deduplication.str)]
  /\ UNCHANGED <<coordinatorVars, sampling, classification, validation,
                 component, randomPool, legacy, construction, app>>

DeduplicatorInit ==
  /\ CoordinatorInit
  /\ cryptoAvailable = TRUE
  /\ sampling = AtRest
  /\ classification = AtRest
  /\ validation = AtRest
  /\ component = AtRest
  /\ randomPool = AtRest
  /\ legacy = AtRest
  /\ construction = AtRest
  /\ app = AtRest
  /\ deduplication \in {Deduplicating(str) :
                          str \in UNION {InputStrings(length) :
                                           length \in 0..MaxInputLength}}

DeduplicatorNext == Deduplicate

\* removeDuplicateCharacters, for every string above.
DeduplicatorSpec == DeduplicatorInit /\ [][DeduplicatorNext]_vars

(* --------------------------------- App -------------------------------- *)

\* The options of the App's constructor that onOptionsChange tests: the four
\* classes in use and the symbols '!%@#'.  The length and the proportions
\* are merged like these and not tested.
DefaultOptions ==
  [useLowercase |-> TRUE, useUppercase |-> TRUE, useDigits |-> TRUE,
   useSymbols |-> TRUE, symbols |-> <<33, 37, 64, 35>>]

OptionKeys ==
  {"useLowercase", "useUppercase", "useDigits", "useSymbols", "symbols"}

\* The symbols a delta carries: strings of symbols and a letter.
DeltaCharacters == {33, 37, 64, 97}

DeltaSymbols ==
  UNION {[1..length -> DeltaCharacters] : length \in 0..MaxSymbolsLength}

\* The partial options objects onOptionsChange is called with: the keys the
\* object has and their values (a key it does not have is written with the
\* value FALSE or the empty string).
DeltaSet ==
  {delta \in [keys : SUBSET OptionKeys,
              useLowercase : BOOLEAN, useUppercase : BOOLEAN,
              useDigits : BOOLEAN, useSymbols : BOOLEAN,
              symbols : DeltaSymbols] :
     /\ "useLowercase" \notin delta.keys => ~delta.useLowercase
     /\ "useUppercase" \notin delta.keys => ~delta.useUppercase
     /\ "useDigits" \notin delta.keys => ~delta.useDigits
     /\ "useSymbols" \notin delta.keys => ~delta.useSymbols
     /\ "symbols" \notin delta.keys => delta.symbols = <<>>}

\* { ...currentOptions, ...optionsDelta }
Spread(currentOptions, optionsDelta) ==
  [key \in OptionKeys |->
     IF key \in optionsDelta.keys THEN optionsDelta[key] ELSE currentOptions[key]]

\* newOptions of onOptionsChange, after the duplicate symbols are removed.
NewOptions(currentOptions, optionsDelta) ==
  [Spread(currentOptions, optionsDelta) EXCEPT
     !.symbols = removeDuplicateCharacters(@)]

\* hasValidSymbols after the for loop of onOptionsChange.
HasValidSymbols(symbols) ==
  \A i \in 1..Len(symbols) : classifyCharacter(symbols[i]) = "symbol"

\* Fault variant: the symbols of the new options are not classified.
OptionsChangeUnclassified(currentOptions, optionsDelta) ==
  LET newOptions == NewOptions(currentOptions, optionsDelta)
  IN  IF /\ \/ newOptions.useUppercase \/ newOptions.useLowercase
            \/ newOptions.useDigits
            \/ (newOptions.useSymbols /\ Len(newOptions.symbols) > 1)
         /\ Len(newOptions.symbols) > 0
        THEN newOptions
        ELSE currentOptions

\* The options the updater of onOptionsChange returns.
OptionsChange(currentOptions, optionsDelta) ==
  LET newOptions == NewOptions(currentOptions, optionsDelta)
  IN  IF /\ \/ newOptions.useUppercase \/ newOptions.useLowercase
            \/ newOptions.useDigits
            \/ (newOptions.useSymbols /\ Len(newOptions.symbols) > 1)
         /\ HasValidSymbols(newOptions.symbols)
         /\ Len(newOptions.symbols) > 0
        THEN newOptions
        ELSE currentOptions

\* onOptionsChange: the state takes the options the updater returns; changed
\* records whether they are the new options.
OnOptionsChange(optionsDelta) ==
  /\ app.state = "mounted"
  /\ LET options == OptionsChange(app.options, optionsDelta)
     IN  app' = [app EXCEPT
           !.options = options,
           !.changed = options = NewOptions(app.options, optionsDelta)]
  /\ UNCHANGED <<coordinatorVars, sampling, classification, validation,
                 component, randomPool, legacy, construction, deduplication>>

\* The App after its constructor.
AppInit ==
  /\ CoordinatorInit
  /\ cryptoAvailable = TRUE
  /\ sampling = AtRest
  /\ classification = AtRest
  /\ validation = AtRest
  /\ component = AtRest
  /\ randomPool = AtRest
  /\ legacy = AtRest
  /\ construction = AtRest
  /\ deduplication = AtRest
  /\ app = [state |-> "mounted", options |-> DefaultOptions, changed |-> TRUE]

AppNext == \E optionsDelta \in DeltaSet : OnOptionsChange(optionsDelta)

\* The App, with every sequence of deltas.
AppSpec == AppInit /\ [][AppNext]_vars

(* ----------------- PasswordGeneratorUtil: constructor ----------------- *)

\* The values navigator.hardwareConcurrency reports; 0 stands for a browser
\* that does not define it (undefined and 0 are both falsy).
ReportedConcurrency == 0..MaxConcurrency

\* The constructor at the head of its for loop: #workers = [], i = 0.
Constructing(hardwareConcurrency) ==
  [state |-> "constructing",
   hardwareConcurrency |-> hardwareConcurrency,
   i |-> 0,
   workers |-> <<>>,
   listeners |-> {},
   requests |-> 0,
   promises |-> 0]

\* One pass of the for loop: a worker is made, given its message listener and
\* pushed to #workers.
NewWorker ==
  /\ construction.state = "constructing"
  /\ construction.i < PoolSize(construction.hardwareConcurrency)
  /\ LET worker == Len(construction.workers) + 1
     IN  construction' = [construction EXCEPT
           !.i = @ + 1,
           !.workers = Append(@, worker),
           !.listeners = @ \cup {worker}]
  /\ UNCHANGED <<coordinatorVars, sampling, classification, validation,
                 component, randomPool, legacy, app, deduplication>>

\* The for loop ends and the constructor returns.
Constructed ==
  /\ construction.state = "constructing"
  /\ ~(construction.i < PoolSize(construction.hardwareConcurrency))
  /\ construction' = [construction EXCEPT !.state = "constructed"]
  /\ UNCHANGED <<coordinatorVars, sampling, classification, validation,
                 component, randomPool, legacy, app, deduplication>>

\* A generatePassword call on the constructed object: it maps #workers to one
\* promise each and leaves the list as it is.
GenerateOnPool ==
  /\ construction.state = "constructed"
  /\ construction.requests < MaxPoolCalls
  /\ construction' = [construction EXCEPT
       !.requests = @ + 1,
       !.promises = Len(construction.workers)]
  /\ UNCHANGED <<coordinatorVars, sampling, classification, validation,
                 component, randomPool, legacy, app, deduplication>>

ConstructorInit ==
  /\ CoordinatorInit
  /\ cryptoAvailable = TRUE
  /\ sampling = AtRest
  /\ classification = AtRest
  /\ validation = AtRest
  /\ component = AtRest
  /\ randomPool = AtRest
  /\ legacy = AtRest
  /\ app = AtRest
  /\ deduplication = AtRest
  /\ construction \in {Constructing(hardwareConcurrency) :
                         hardwareConcurrency \in ReportedConcurrency}

ConstructorNext ==
  \/ NewWorker
  \/ Constructed
  \/ GenerateOnPool

ConstructorSpec == ConstructorInit /\ [][ConstructorNext]_vars

(* ------------------------------- claims ------------------------------- *)

Entered(r) == r <= currentRequestId
Pending(r) == calls[r].result.kind = "pending"
Returned(r) == calls[r].result.kind = "OK"
Failed(r) == calls[r].result.kind \in {"CancelError", "TimeoutError", "Error"}
Fulfilled(r, w) == calls[r].promises[w].state = "fulfilled"
Rejected(r, w) == calls[r].promises[w].state = "rejected"
Overlapped(r) == r > 1 /\ calls[r].waited > 0

\* C1: every password a generatePassword call returns meets the constraints
\* of that call's own options: enough digits when digits are used, enough
\* symbols when a non-empty symbol set is used, and a case variance within
\* the maximum when both cases are used and the password has letters.
C1_ReturnedPasswordMeetsOptions ==
  \A r \in RequestIds :
    Returned(r) =>
      LET password  == calls[r].result.password
          options   == calls[r].options
          length    == Len(password)
          digits    == characterCount(password, "digit")
          symbols   == characterCount(password, "symbol")
          lowercase == characterCount(password, "lowercase")
          uppercase == characterCount(password, "uppercase")
      IN  /\ options.useDigits =>
               digits * options.minDigitProportion.den
                 >= options.minDigitProportion.num * length
          /\ (options.useSymbols /\ options.symbols # <<>>) =>
               symbols * options.minSymbolProportion.den
                 >= options.minSymbolProportion.num * length
          /\ (options.useUppercase /\ options.useLowercase
                /\ lowercase + uppercase > 0) =>
               Abs(lowercase - uppercase) * options.maxCaseVariance.den
                 <= options.maxCaseVariance.num * (lowercase + uppercase)

\* A call that waited for an earlier call with other options has returned a
\* password under a case-variance constraint.
C1_Witness ==
  /\ Entered(2) /\ Returned(2) /\ Overlapped(2)
  /\ calls[2].options = OptionsBalanced
  /\ calls[1].options # calls[2].options

\* C2: every returned password has exactly passwordLength characters, each of
\* them a character of an enabled class; no character of a disabled class
\* appears.
C2_ReturnedPasswordFromAlphabet ==
  \A r \in RequestIds :
    Returned(r) =>
      LET password == calls[r].result.password
          options  == calls[r].options
      IN  /\ Len(password) = options.passwordLength
          /\ \A i \in 1..Len(password) :
               /\ \/ options.useUppercase /\ password[i] \in Range(UppercaseChars)
                  \/ options.useLowercase /\ password[i] \in Range(LowercaseChars)
                  \/ options.useDigits /\ password[i] \in Range(DigitChars)
                  \/ options.useSymbols /\ password[i] \in Range(options.symbols)
               /\ classifyCharacter(password[i]) = "uppercase" => options.useUppercase
               /\ classifyCharacter(password[i]) = "lowercase" => options.useLowercase
               /\ classifyCharacter(password[i]) = "digit" => options.useDigits
               /\ classifyCharacter(password[i]) = "symbol" => options.useSymbols

\* Passwords have been returned both for the letters-only and for the
\* digits-only options.
C2_Witness ==
  /\ Entered(2) /\ Returned(1) /\ Returned(2)
  /\ calls[1].options = OptionsBalanced
  /\ calls[2].options = OptionsDigitsOnly

\* C3: the password a call returns comes from a response that echoed the
\* call's own request id and was generated from the call's own options.
C3_NoCrossDelivery ==
  \A r \in RequestIds :
    Returned(r) =>
      /\ calls[r].result.requestId = r
      /\ calls[r].result.options = calls[r].options

\* Two overlapping calls with different options have both returned a password.
C3_Witness ==
  /\ Entered(2) /\ Returned(1) /\ Returned(2) /\ Overlapped(2)
  /\ calls[1].options # calls[2].options

\* C4 (as claimed): once a newer call has advanced the request id, the call
\* with the older id never resolves with a password.
C4_StaleNeverResolves ==
  [][\A r \in RequestIds :
       (Pending(r) /\ r # currentRequestId) => calls'[r].result.kind # "OK"]_vars

\* C5 (as claimed): a call that is superseded before it has produced its
\* result settles with a CancelError.
C5_SupersededIsCancelled ==
  [][\A r \in RequestIds :
       (Pending(r) /\ r # currentRequestId /\ calls'[r].result.kind # "pending")
         => calls'[r].result.kind = "CancelError"]_vars

\* C6: a call fails only once every one of its worker promises is rejected;
\* the first worker promise to be fulfilled decides the call, which returns
\* that password and keeps it whatever the other workers report later.
C6_FirstSuccessWins ==
  [][\A r \in RequestIds :
       /\ calls'[r].result.kind \in {"CancelError", "TimeoutError", "Error"} =>
            \A w \in Workers : calls'[r].promises[w].state = "rejected"
       /\ \A w \in Workers :
            (/\ ~(\E v \in Workers : Fulfilled(r, v))
             /\ calls'[r].promises[w].state = "fulfilled")
              => calls'[r].result = calls'[r].promises[w].outcome
       /\ Returned(r) => calls'[r].result = calls[r].result]_vars

\* A call has returned a password although another of its workers failed.
C6_Witness ==
  \E r \in RequestIds :
    /\ Returned(r)
    /\ \E w \in Workers : Rejected(r, w)
    /\ \E w \in Workers : Fulfilled(r, w)

\* C7 (as claimed): a call whose worker promises are all rejected throws an
\* Error if any worker reported one, and a TimeoutError otherwise.
C7_ErrorElseTimeout ==
  \A r \in RequestIds :
    Failed(r) =>
      calls[r].result.kind =
        IF \E w \in Workers : calls[r].promises[w].outcome.kind = "Error"
          THEN "Error" ELSE "TimeoutError"

\* The worker at the first position of the pool.
PoolHead == CHOOSE w \in Workers : \A v \in Workers : w <= v

\* C7 (amended): a call whose worker promises are all rejected throws the
\* failure of the first worker of the pool: the worker's Error if the workers
\* reported one, else that worker's TimeoutError or, only for a superseded
\* call, its CancelError.
C7_FirstWorkerFailure ==
  \A r \in RequestIds :
    Failed(r) =>
      /\ calls[r].result = calls[r].promises[PoolHead].outcome
      /\ (\E w \in Workers : calls[r].promises[w].outcome.kind = "Error")
           => calls[r].result.kind = "Error"
      /\ calls[r].result.kind = "CancelError" => r < currentRequestId

\* A call has failed with workers that reported different failures.
C7_Witness ==
  \E r \in RequestIds :
    /\ Failed(r)
    /\ \E v, w \in Workers :
         calls[r].promises[v].outcome.kind # calls[r].promises[w].outcome.kind

\* C8: every call eventually settles, its result never changes afterwards, and
\* the result is a password, a CancelError, a TimeoutError or a worker Error.
C8_EveryCallSettlesOnce ==
  /\ \A r \in 1..MaxCalls : Entered(r) ~> (Entered(r) /\ ~Pending(r))
  /\ [][\A r \in RequestIds :
          ~Pending(r) => calls'[r].result = calls[r].result]_vars
  /\ [](\A r \in RequestIds :
          /\ Returned(r) \/ Failed(r) \/ Pending(r)
          /\ Returned(r) <=> calls[r].result.password # <<>>)

\* Two overlapping calls have settled, the first one cancelled.
C8_Witness ==
  /\ Entered(2) /\ Overlapped(2)
  /\ calls[1].result.kind = "CancelError"
  /\ ~Pending(2)

Last(queue) == queue[Len(queue)]

\* A request for call r is posted to worker w in this step.
Posted(r, w) ==
  /\ Len(inbox'[w]) > Len(inbox[w])
  /\ Last(inbox'[w]).requestId = r

\* C9: a worker promise is rejected with a TimeoutError only when more than
\* the timeout has passed since the dispatch of its call, and no request is
\* posted once that time is over the timeout; the time the call waited for
\* earlier requests does not count.
C9_TimeoutFromDispatch ==
  [][\A r \in RequestIds : \A w \in Workers :
       /\ (/\ calls'[r].promises[w].outcome.kind = "TimeoutError"
           /\ calls[r].promises[w].outcome.kind # "TimeoutError")
            => calls'[r].elapsed > calls[r].timeout
       /\ Posted(r, w) => calls'[r].elapsed <= calls[r].timeout]_vars

\* A call that waited longer than its timeout has returned a password.
C9_Witness ==
  /\ Entered(2) /\ Returned(2)
  /\ calls[2].waited > calls[2].timeout

\* No worker has a request it has not answered, and no answer is unhandled.
Quiescent ==
  /\ workerPromiseHandlers = {}
  /\ \A w \in Workers : inbox[w] = <<>> /\ ~running[w].busy /\ outbox[w] = <<>>

\* Call b follows a call whose options no candidate satisfies and has options
\* every candidate satisfies.
Supersession(b) ==
  /\ Entered(b) /\ cryptoAvailable
  /\ calls[b - 1].options = OptionsUnsatisfiable
  /\ calls[b].options = OptionsDigitsOnly

Handled(w) == Len(outbox'[w]) < Len(outbox[w])

\* C11: when the secure random source is unavailable, every response of a
\* worker is an ERROR (never a TIMEOUT or a password); handling a response
\* posts no further request to that worker; no call returns a password or
\* throws a TimeoutError; and a call whose workers have all answered throws
\* the Error made from the worker's message.
C11_EnvironmentErrorIsFatal ==
  /\ [](~cryptoAvailable =>
          /\ \A w \in Workers : \A i \in 1..Len(outbox[w]) :
                outbox[w][i].responseCode = "ERROR"
          /\ \A r \in RequestIds :
                /\ ~Returned(r) /\ calls[r].result.kind # "TimeoutError"
                /\ \A w \in Workers :
                     calls[r].promises[w].outcome.kind
                       \in {"none", "pending", "Error", "CancelError"}
                /\ (\A w \in Workers :
                      calls[r].promises[w].outcome.kind = "Error")
                     => calls[r].result.kind = "Error")
  /\ [][~cryptoAvailable =>
          \A w \in Workers : Handled(w) => inbox'[w] = inbox[w]]_vars

\* Without a random source a call has thrown the workers' Error after every
\* worker answered once.
C11_Witness ==
  /\ ~cryptoAvailable /\ Entered(1)
  /\ calls[1].result.kind = "Error"
  /\ \A w \in Workers : calls[1].promises[w].outcome.kind = "Error"
  /\ Quiescent

\* C12: getRandomByteInRange(min, max) returns an integer between min and max,
\* both included, whatever bytes the pool hands out.
C12_ResultInRange ==
  sampling.state = "returned" =>
    /\ sampling.value \in Int
    /\ sampling.min <= sampling.value
    /\ sampling.value <= sampling.max

\* A call with min above 0 has returned its upper bound from a byte above it.
C12_Witness ==
  /\ sampling.state = "returned"
  /\ sampling.min > 0 /\ sampling.max > sampling.min
  /\ sampling.value = sampling.max
  /\ sampling.randomUint8 > sampling.max

\* The bytes below the limit that getRandomByteInRange(min, max) turns into
\* value, counted without reference to the loop of the function.
Preimages(value, min, max) ==
  LET bound == max - min + 1
      limit == (256 \div bound) * bound
  IN  {b \in Byte : b < limit /\ (b % bound) + min = value}

\* bound and limit of the call of getRandomByteInRange being made.
SamplingBound == sampling.max - sampling.min + 1
SamplingLimit == (256 \div SamplingBound) * SamplingBound

\* C13: with bound = max - min + 1 and limit = floor(256 / bound) * bound, a
\* drawn byte is kept if and only if it is below limit, the value returned is
\* (byte % bound) + min, and every value from min to max is returned for
\* exactly floor(256 / bound) bytes, and for those bytes only.
C13_RejectionSamplingUnbiased ==
  /\ [][sampling.state = "drawing" =>
          /\ sampling'.state = "returned" <=> sampling'.randomUint8 < SamplingLimit
          /\ sampling'.state = "returned" =>
               sampling'.value
                 = (sampling'.randomUint8 % SamplingBound) + sampling.min]_vars
  /\ []((sampling.state = "drawing" /\ sampling.randomUint8 = 0) =>
          /\ getRandomByteInRange(sampling.min, sampling.max)
               = sampling.min..sampling.max
          /\ \A value \in sampling.min..sampling.max :
               Cardinality(Preimages(value, sampling.min, sampling.max))
                 = 256 \div SamplingBound)

\* A byte at or above the limit was drawn for a bound that does not divide
\* 256, and drawn again.
C13_Witness ==
  /\ sampling.state = "drawing"
  /\ 256 % SamplingBound # 0
  /\ sampling.randomUint8 >= SamplingLimit

\* The classes of the reference partition a character code belongs to.
ReferenceClasses(code) ==
  {class \in {"digit", "uppercase", "lowercase", "symbol"} :
     \/ class = "digit" /\ code \in 48..57
     \/ class = "uppercase" /\ code \in 65..90
     \/ class = "lowercase" /\ code \in 97..122
     \/ class = "symbol"
          /\ code \in (32..47) \cup (58..64) \cup (91..96) \cup (123..126)}

\* C14: classifyCharacter returns, for every code, one of its five results;
\* the result is the one class of the reference partition the code belongs
\* to (48..57 digit, 65..90 uppercase, 97..122 lowercase, 32..47, 58..64,
\* 91..96 and 123..126 symbol), and null for a code in no class; every code
\* from 32 to 126 gets a class; calling it again returns the same result.
C14_ClassifyIsReferencePartition ==
  /\ [](classification.state = "returned" =>
          LET code == classification.character
              class == classification.classification
          IN  /\ class \in {"digit", "uppercase", "lowercase", "symbol", "null"}
              /\ Cardinality(ReferenceClasses(code)) <= 1
              /\ ReferenceClasses(code) = {class} \ {"null"}
              /\ code \in 32..126 => class # "null")
  /\ [][classification.state = "returned" => classification' = classification]_vars

\* Codes of the last symbol range, and codes outside every class, have been
\* classified.
C14_Witness ==
  /\ classification.state = "returned"
  /\ \/ classification.character = 126 /\ classification.classification = "symbol"
     \/ classification.character = 127 /\ classification.classification = "null"

\* The number of characters of a password that classify as a class.
Count(password, class) ==
  Cardinality({i \in DOMAIN password : classifyCharacter(password[i]) = class})

\* 2 * |lowercase / letters - 1/2| <= maximum, computed in doubles as written.
WithinCaseVariance(lowercase, letters, maximum) ==
  AtMost(Twice(AbsMinusHalf(Divide(lowercase, letters))),
         Divide(maximum.num, maximum.den))

\* C15: passwordIsValid(password, options) is true if and only if (1) digits
\* are not used or digits / length >= minDigitProportion, (2) symbols are
\* not used or the symbol set is empty or symbols / length >=
\* minSymbolProportion, and (3) there is no letter or a case is not used or
\* 2 * |lowercase / letters - 1/2| <= maxCaseVariance, the counts being those
\* of classifyCharacter over the password.
C15_ValidIffThreeConditions ==
  validation.state = "returned" =>
    LET password  == validation.password
        options   == validation.options
        length    == Len(password)
        digits    == Count(password, "digit")
        symbols   == Count(password, "symbol")
        lowercase == Count(password, "lowercase")
        letters   == lowercase + Count(password, "uppercase")
    IN  validation.valid <=>
          /\ options.useDigits =>
               digits * options.minDigitProportion.den
                 >= options.minDigitProportion.num * length
          /\ (options.useSymbols /\ options.symbols # <<>>) =>
               symbols * options.minSymbolProportion.den
                 >= options.minSymbolProportion.num * length
          /\ (letters > 0 /\ options.useUppercase /\ options.useLowercase) =>
               WithinCaseVariance(lowercase, letters, options.maxCaseVariance)

\* A password without symbols passed although all its characters had to be
\* symbols of an empty symbol set, and all three constraints were in force
\* for another.
C15_Witness ==
  /\ validation.state = "returned" /\ validation.valid
  /\ validation.options.useSymbols /\ validation.options.symbols = <<>>
  /\ validation.options.minSymbolProportion = Proportion(1, 1)
  /\ validation.options.useDigits
  /\ validation.options.minDigitProportion = Proportion(1, 2)
  /\ validation.options.useUppercase /\ validation.options.useLowercase
  /\ validation.options.maxCaseVariance = Proportion(1, 1)
  /\ Count(validation.password, "lowercase") = 1
  /\ Count(validation.password, "digit") = 1

\* C16: the result of passwordIsValid depends on the password and the options
\* only, and not on the proportion or variance of a constraint that is
\* disabled: another minDigitProportion when digits are not used, another
\* minSymbolProportion when symbols are not used or the symbol set is empty,
\* another maxCaseVariance when a letter case is not used, give the same
\* result on the same password.
C16_DisabledClassDisablesConstraint ==
  validation.state = "returned" =>
    LET password == validation.password
        options  == validation.options
    IN  /\ validation.valid = passwordIsValid(password, options)
        /\ ~options.useDigits =>
             \A proportion \in ProportionSet :
               passwordIsValid(password,
                 [options EXCEPT !.minDigitProportion = proportion])
                 = validation.valid
        /\ (~options.useSymbols \/ options.symbols = <<>>) =>
             \A proportion \in ProportionSet :
               passwordIsValid(password,
                 [options EXCEPT !.minSymbolProportion = proportion])
                 = validation.valid
        /\ (~options.useUppercase \/ ~options.useLowercase) =>
             \A variance \in CaseVarianceSet :
               passwordIsValid(password,
                 [options EXCEPT !.maxCaseVariance = variance])
                 = validation.valid

\* A password of letters of one case only, with a digit short of the disabled
\* digit proportion, passed under a maximum case variance of 0.
C16_Witness ==
  /\ validation.state = "returned" /\ validation.valid
  /\ ~validation.options.useDigits
  /\ validation.options.minDigitProportion = Proportion(1, 1)
  /\ ~validation.options.useUppercase /\ validation.options.useLowercase
  /\ validation.options.maxCaseVariance = Proportion(0, 2)
  /\ Count(validation.password, "lowercase") = 2
  /\ Count(validation.password, "digit") = 1

\* C18 (as claimed): with both letter cases used and maxCaseVariance =
\* (n - 1) / (n + 1), a password with a letter meets the case-variance
\* constraint if and only if neither case has more than n times the letters
\* of the other.
C18_RatioOfCases ==
  \A n \in 1..MaxRatio :
    (/\ validation.state = "returned"
     /\ validation.options.useUppercase /\ validation.options.useLowercase
     /\ ~validation.options.useDigits /\ ~validation.options.useSymbols
     /\ validation.options.maxCaseVariance = Proportion(n - 1, n + 1)
     /\ Count(validation.password, "lowercase")
          + Count(validation.password, "uppercase") > 0)
      => (validation.valid <=>
            /\ Count(validation.password, "lowercase")
                 <= n * Count(validation.password, "uppercase")
            /\ Count(validation.password, "uppercase")
                 <= n * Count(validation.password, "lowercase"))

\* C17: with both letter cases used and maxCaseVariance = 0, a returned
\* password that has letters has as many uppercase as lowercase letters; a
\* call for letters only and an odd length never returns a password, and
\* (with a random source, and unless a later call supersedes it) it ends
\* with a TimeoutError.
C17_ExactBalance ==
  /\ [](\A r \in RequestIds :
          LET password == calls[r].result.password
              options  == calls[r].options
          IN  /\ (/\ Returned(r)
                  /\ options.useUppercase /\ options.useLowercase
                  /\ options.maxCaseVariance.num = 0
                  /\ Count(password, "uppercase") + Count(password, "lowercase") > 0)
                   => Count(password, "uppercase") = Count(password, "lowercase")
              /\ options = OptionsExactOdd => ~Returned(r))
  /\ \A r \in 1..MaxCalls :
       (Entered(r) /\ calls[r].options = OptionsExactOdd /\ cryptoAvailable)
         ~> (\/ currentRequestId > r
             \/ Entered(r) /\ calls[r].result.kind = "TimeoutError")

\* A call for an odd number of letters has timed out after its workers tried,
\* and a call for an even length has returned one letter of each case.
C17_Witness ==
  /\ Entered(2)
  /\ calls[1].options = OptionsExactOdd
  /\ calls[1].result.kind = "TimeoutError"
  /\ calls[1].elapsed > 0
  /\ calls[2].options = OptionsExactEven
  /\ Returned(2)
  /\ Count(calls[2].result.password, "uppercase") = 1
  /\ Count(calls[2].result.password, "lowercase") = 1

\* The generatePassword call of a request of the component settles in this
\* step with an outcome of this kind.
Settles(request, kind) ==
  /\ request \in 1..component.generationRequest
  /\ component.promises[request].kind = "pending"
  /\ component'.promises[request].kind = kind

\* C19: the password the component displays is the one returned to its most
\* recent onGeneratePassword request; a password returned to a request that
\* is no longer the most recent changes nothing of what is displayed.
C19_OnlyLatestPasswordDisplayed ==
  /\ [](component.state.password # <<>> =>
          /\ component.state.password = PasswordOf(component.generationRequest)
          /\ component.promises[component.generationRequest].kind = "OK")
  /\ [][\A request \in 1..MaxRequests :
          (Settles(request, "OK") /\ request < component.generationRequest)
            => component'.state = component.state]_vars

\* The password of the last request is displayed, and an earlier request
\* returned its password after it was superseded.
C19_Witness ==
  /\ component.generationRequest = 2
  /\ component.state.password = PasswordOf(2)
  /\ component.promises[1].kind = "OK" /\ component.promises[1].late

\* C20: when a generatePassword call fails with a CancelError, the component
\* does not show an error, does not open the error dialog, and changes
\* neither the displayed password nor the loading flag.
C20_CancelErrorNeverShown ==
  /\ [][\A request \in 1..MaxRequests :
          Settles(request, "CancelError") =>
            /\ component'.state.error = component.state.error
            /\ component'.state.errorDialogOpen = component.state.errorDialogOpen
            /\ component'.state.errorMessage = component.state.errorMessage
            /\ component'.state.password = component.state.password
            /\ component'.state.loading = component.state.loading]_vars
  /\ [](component.state.errorMessage # "CancelError")

\* A request failed with a CancelError while the component was loading, and
\* the component is still loading, without an error.
C20_Witness ==
  /\ component.generationRequest = 2
  /\ component.promises[1].kind = "CancelError"
  /\ component.promises[2].kind = "pending"
  /\ component.state.loading /\ ~component.state.error
  /\ ~component.state.errorDialogOpen

\* The request ids worker w has been asked about and the coordinator has no
\* handled answer for: the requests in its queue, the one it works on, and the
\* responses it has posted that are not handled yet.
Outstanding(w) ==
  {inbox[w][i].requestId : i \in 1..Len(inbox[w])}
    \cup (IF running[w].busy THEN {running[w].message.requestId} ELSE {})
    \cup {outbox[w][i].requestId : i \in 1..Len(outbox[w])}

OutstandingCount(w) ==
  Len(inbox[w]) + (IF running[w].busy THEN 1 ELSE 0) + Len(outbox[w])

\* C21: only one request is active on the workers at a time: all outstanding
\* worker requests carry the same request id, each worker has at most one
\* outstanding request, and a request for a call is posted only when every
\* older call has been dispatched and all its worker promises have settled;
\* this holds with a third call made while the second is still waiting.
C21_OneRequestOnWorkers ==
  /\ [](/\ Cardinality(UNION {Outstanding(w) : w \in Workers}) <= 1
        /\ \A w \in Workers : OutstandingCount(w) <= 1)
  /\ [][\A r \in RequestIds : \A w \in Workers :
          Posted(r, w) =>
            \A q \in 1..(r - 1) :
              /\ calls[q].phase = "dispatched"
              /\ \A v \in Workers : Settled(calls[q].promises[v])]_vars

\* The third call was made while the second waited for the workers of the
\* first; the second was cancelled without a request, and a worker now has a
\* request of the third.
C21_Witness ==
  /\ Entered(3) /\ Overlapped(2)
  /\ calls[2].previousRequestIds = {1}
  /\ calls[3].previousRequestIds = {1}
  /\ calls[2].result.kind = "CancelError"
  /\ \E w \in Workers : 3 \in Outstanding(w)

\* C22: a request for call r is posted to a worker only while r is the
\* current request id; a call that is superseded while it waits for the
\* workers of older requests posts no message when it resumes, and all its
\* worker promises and the call itself fail with a CancelError.
C22_PostedOnlyWhenCurrent ==
  /\ [][\A r \in RequestIds : \A w \in Workers :
          Posted(r, w) => (r = currentRequestId /\ r = currentRequestId')]_vars
  /\ [][\A r \in RequestIds :
          (/\ calls[r].phase = "waiting"
           /\ r < currentRequestId
           /\ calls'[r].phase = "dispatched")
            => /\ inbox' = inbox
               /\ workerPromiseHandlers' = workerPromiseHandlers
               /\ \A w \in Workers :
                    calls'[r].promises[w].outcome.kind = "CancelError"
               /\ calls'[r].result.kind = "CancelError"]_vars

\* The second of three calls waited for the workers of the first, was
\* superseded meanwhile and cancelled; the third has returned a password.
C22_Witness ==
  /\ Entered(3) /\ Overlapped(2) /\ Overlapped(3)
  /\ calls[2].result.kind = "CancelError"
  /\ Returned(3)

\* Request r is superseded and its loop on worker w waits for a response.
StaleLoop(r, w) ==
  /\ Entered(r) /\ r < currentRequestId
  /\ calls[r].promises[w].state = "pending"

\* C23: once a newer call has advanced the request id past r, every worker
\* loop of r that is still running settles: it settles in the step that
\* handles the response to its outstanding request and in no other step,
\* and the worker works on that request until it posts the response.
C23_StaleLoopSettlesAtResponse ==
  /\ \A r \in 1..MaxCalls : \A w \in Workers :
       StaleLoop(r, w) ~> (Entered(r) /\ Settled(calls[r].promises[w]))
  /\ [][\A r \in RequestIds : \A w \in Workers :
          StaleLoop(r, w) =>
            /\ (Handled(w) /\ Head(outbox[w]).requestId = r)
                 => Settled(calls'[r].promises[w])
            /\ calls'[r].promises[w] # calls[r].promises[w]
                 => (Handled(w) /\ Head(outbox[w]).requestId = r)]_vars
  /\ [][\A w \in Workers :
          (/\ running[w].busy
           /\ \/ ~running'[w].busy
              \/ running'[w].message # running[w].message)
            => /\ Len(outbox'[w]) = Len(outbox[w]) + 1
               /\ Last(outbox'[w]).requestId = running[w].message.requestId]_vars

\* A worker loop of the first call was still running when the second call was
\* made, and has ended with a CancelError; the second call waited for it.
C23_Witness ==
  /\ Entered(2) /\ Overlapped(2)
  /\ calls[2].previousRequestIds = {1}
  /\ \E w \in Workers : calls[1].promises[w].outcome.kind = "CancelError"

\* The response of worker w handled in this step ends a time step of
\* request r without a password.
TimeStepOver(r, w) ==
  /\ Handled(w)
  /\ Head(outbox[w]).requestId = r
  /\ Head(outbox[w]).responseCode = "TIMEOUT"

\* C24 (as claimed): after a call has returned the password of its first
\* successful worker, every other worker loop of that call ends with a
\* CancelError at the end of its time step and posts no further request,
\* also when no later call has been made.
C24_LosersCancelledAfterSuccess ==
  [][\A r \in RequestIds : \A w \in Workers :
       (/\ Returned(r) /\ r = currentRequestId
        /\ calls[r].promises[w].state = "pending"
        /\ TimeStepOver(r, w))
         => /\ calls'[r].promises[w].outcome.kind = "CancelError"
            /\ ~Posted(r, w)]_vars

\* The request id call number n took when it was made.
RequestIdOf(n) == calls[n].promises[PoolHead].outcome.requestId

\* C25: every generatePassword call advances the request id by exactly one
\* and takes the new value as its id, so no two calls have the same id; the
\* request id never decreases, and no step other than the entry of a call
\* changes it.
C25_RequestIdMonotonicUnique ==
  /\ [][/\ currentRequestId' >= currentRequestId
        /\ Len(calls') # Len(calls) =>
             /\ Len(calls') = Len(calls) + 1
             /\ currentRequestId' = currentRequestId + 1
             /\ calls'[Len(calls')].promises[PoolHead].outcome.requestId
                  = currentRequestId'
             /\ calls'[Len(calls')].result.requestId = currentRequestId'
        /\ Len(calls') = Len(calls) => currentRequestId' = currentRequestId]_vars
  /\ [](\A m, n \in 1..Len(calls) :
          (m < n => RequestIdOf(m) < RequestIdOf(n))
            /\ RequestIdOf(n) <= currentRequestId)

\* Two calls have been made and settled, each under its own request id, and
\* the workers have answered requests meanwhile.
C25_Witness ==
  /\ Len(calls) = 2 /\ currentRequestId = 2
  /\ RequestIdOf(1) = 1 /\ RequestIdOf(2) = 2
  /\ Returned(1) /\ Returned(2)

\* Request r is the current one and its timeout has not elapsed.
CurrentWithinTimeout(r) ==
  r = currentRequestId /\ calls[r].elapsed <= calls[r].timeout

\* C26: a TIMEOUT response alone never fails a call: when the loop of a
\* worker receives it while its request is current and within the overall
\* timeout, the loop stays pending, the result of the call is left as it
\* was, and another request with the same request id and options is posted
\* to that worker; a loop ends only on an OK response, on an ERROR response,
\* or on a TIMEOUT response handled when the request is stale or the overall
\* timeout has elapsed.
C26_TimeStepTimeoutRetries ==
  /\ [][\A r \in RequestIds : \A w \in Workers :
          (/\ calls[r].promises[w].state = "pending"
           /\ TimeStepOver(r, w)
           /\ CurrentWithinTimeout(r))
            => /\ calls'[r].promises[w].state = "pending"
               /\ calls'[r].result = calls[r].result
               /\ Posted(r, w)
               /\ Last(inbox'[w]).options = calls[r].options]_vars
  /\ [][\A r \in RequestIds : \A w \in Workers :
          (/\ calls[r].promises[w].state = "pending"
           /\ calls'[r].promises[w].state # "pending")
            => /\ Handled(w) /\ Head(outbox[w]).requestId = r
               /\ \/ Head(outbox[w]).responseCode \in {"OK", "ERROR"}
                  \/ /\ Head(outbox[w]).responseCode = "TIMEOUT"
                     /\ ~CurrentWithinTimeout(r)]_vars

\* The overall timeout is longer than a time step; a worker has answered
\* TIMEOUT while no worker has a password yet, and the request is still the
\* current one within its timeout: the next step handles that response.
C26_Witness ==
  \E r \in RequestIds : \E w \in Workers :
    /\ Pending(r) /\ CurrentWithinTimeout(r)
    /\ calls[r].elapsed >= PASSWORD_GENERATION_TIMESTEP
    /\ calls[r].promises[w].state = "pending"
    /\ outbox[w] # <<>>
    /\ Head(outbox[w]).requestId = r
    /\ Head(outbox[w]).responseCode = "TIMEOUT"

\* Worker w has a request it has not answered.
Unanswered(w) == inbox[w] # <<>> \/ running[w].busy

Ceiling(count, length) == (count + length - 1) \div length

\* C30: the random pool keeps 0 <= numRead <= L for every buffer length L; it
\* is regenerated exactly when a byte is requested with numRead = L, the
\* first request included, so that no byte of the initial buffer is
\* returned; regenerating writes every byte of the buffer at once and reads
\* from position 0 again; otherwise the next position is returned; and n
\* requests regenerate the pool ceil(n / L) times.
C30_RandomPoolInvariant ==
  /\ [](randomPool.state = "pool" =>
          LET length == Len(randomPool.buffer)
          IN  /\ 0 <= randomPool.numRead /\ randomPool.numRead <= length
              /\ randomPool.regenerated = Ceiling(randomPool.requested, length)
              /\ randomPool.requested > 0 =>
                   /\ randomPool.randomByte.fill = randomPool.regenerated
                   /\ randomPool.randomByte.fill >= 1
                   /\ randomPool.randomByte = randomPool.buffer[randomPool.numRead]
                   /\ \A position \in 1..length :
                        randomPool.buffer[position].fill = randomPool.regenerated)
  /\ [][randomPool.state = "pool" =>
          LET length == Len(randomPool.buffer)
          IN  IF randomPool.numRead = length
                THEN /\ randomPool'.regenerated = randomPool.regenerated + 1
                     /\ randomPool'.numRead = 1
                ELSE /\ randomPool'.regenerated = randomPool.regenerated
                     /\ randomPool'.buffer = randomPool.buffer
                     /\ randomPool'.numRead = randomPool.numRead + 1]_vars

\* A pool of two bytes has served five requests: it was regenerated three
\* times and the first byte of the third buffer was returned last.
C30_Witness ==
  /\ randomPool.state = "pool"
  /\ Len(randomPool.buffer) = 2
  /\ randomPool.requested = 5
  /\ randomPool.regenerated = 3
  /\ randomPool.numRead = 1

\* C29: getRandomByteInRange returns for every bound from 1 to 256 when the
\* random bytes are fair: an accepted byte exists for each of these bounds,
\* and generateRandomString, which returns only after getRandomByteInRange
\* has returned for each character, completes a string of the requested
\* length.
C29_SamplingTerminates ==
  /\ [](sampling.state = "drawing" =>
          \E randomByte \in Byte :
            ~Redraw(randomByte, sampling.max - sampling.min + 1))
  /\ <>(sampling.state = "complete" /\ sampling.i = sampling.length)

\* A string over 256 characters is complete, its last byte being 255.
C29_Witness ==
  /\ sampling.state = "complete"
  /\ sampling.max - sampling.min + 1 = 256
  /\ sampling.i = MaxStringLength
  /\ sampling.randomUint8 = 255

\* generatePromise number g settles in this step.
GenerationSettles(g) ==
  /\ legacy.generations[g].position # "done"
  /\ legacy'.generations[g].position = "done"

\* C28 (as claimed): in the earlier util, when the promise of a call that
\* started a generation settles, every worker promise of that generation has
\* settled, no worker has a request without a handled answer, promises is
\* null and cancelling is false.
C28_NoWorkersRunningOnReturn ==
  [][legacy.state = "legacy" =>
       \A g \in 1..Len(legacy.generations) :
         GenerationSettles(g) =>
           /\ \A i \in 1..legacy.size :
                /\ legacy'.generations[g].loops[i] # "awaiting"
                /\ legacy'.outstanding[i] = 0
                /\ legacy'.resolvePassword[i] = 0
           /\ legacy'.promises = 0
           /\ ~legacy'.cancelling]_vars

\* C31: the call that holds the current request id is never cancelled: a call
\* fails with a CancelError only when the request id has moved past its own,
\* at the step that settles it and ever after, so the most recent call ends
\* with a password, a TimeoutError or the error of the environment.
C31_CurrentCallNeverCancelled ==
  /\ [][\A r \in RequestIds :
          (calls[r].result.kind # "CancelError"
             /\ calls'[r].result.kind = "CancelError")
            => /\ currentRequestId > r
               /\ currentRequestId' > r]_vars
  /\ [](\A r \in RequestIds :
          /\ calls[r].result.kind = "CancelError" => r < currentRequestId
          /\ (r = currentRequestId /\ ~Pending(r) /\ Entered(r)) =>
               calls[r].result.kind \in {"OK", "TimeoutError", "Error"})

\* The first call has failed with a CancelError after a second call took the
\* request id, and the second call has returned a password.
C31_Witness ==
  /\ currentRequestId = 2
  /\ calls[1].result.kind = "CancelError"
  /\ Returned(2)

\* C32 (as claimed): the pool the constructor builds has as many workers as
\* the parallelism the browser reports and never fewer than two, also when
\* the browser reports 1 or nothing, and no generatePassword call adds or
\* removes a worker.
C32_PoolAtLeastTwo ==
  construction.state = "constructed" =>
    /\ Len(construction.workers) >= 2
    /\ Len(construction.workers) =
         (IF construction.hardwareConcurrency < 2
            THEN 2 ELSE construction.hardwareConcurrency)
    /\ construction.requests > 0 =>
         construction.promises = Len(construction.workers)

\* C33 (as claimed): a failure other than a CancelError of a request of the
\* component that is no longer the most recent changes nothing of what is
\* displayed for the newer request: the error flag, the error dialog, the
\* loading flag and the password stay as they are.
C33_SupersededFailureNotShown ==
  [][\A request \in 1..MaxRequests :
       (/\ request < component.generationRequest
        /\ \/ Settles(request, "TimeoutError")
           \/ Settles(request, "Error"))
         => /\ component'.state.error = component.state.error
            /\ component'.state.errorDialogOpen = component.state.errorDialogOpen
            /\ component'.state.loading = component.state.loading
            /\ component'.state.password = component.state.password]_vars

\* The component has left the loading state for its request n: the request
\* has settled, and its password or an error is displayed.
Displayed(n) ==
  /\ n <= component.generationRequest
  /\ component.promises[n].kind # "pending"
  /\ ~component.state.loading
  /\ \/ component.state.password = PasswordOf(n)
     \/ component.state.error

\* C34: once the last onGeneratePassword request has been made, the component
\* eventually leaves the loading state and shows the password of that request
\* or an error, however many earlier requests were superseded; from the
\* moment the last request has settled the component is not loading.
C34_LoadingEnds ==
  /\ \A n \in 1..MaxRequests :
       (component.generationRequest = n)
         ~> (component.generationRequest > n \/ Displayed(n))
  /\ [](\A n \in 1..MaxRequests :
          (component.generationRequest = n
             /\ component.promises[n].kind # "pending") => Displayed(n))

\* The third request in a row has shown its password after the two before it
\* were superseded, one of them cancelled and one returning its password late.
C34_Witness ==
  /\ component.generationRequest = 3
  /\ Displayed(3) /\ component.state.password = PasswordOf(3)
  /\ component.promises[1].kind = "CancelError"
  /\ component.promises[2].kind = "OK" /\ component.promises[2].late

\* The number of characters passwords are generated from under the options:
\* 26 letters of each case, 10 digits, the symbols.
AlphabetSize(options) ==
  (IF options.useUppercase THEN 26 ELSE 0)
    + (IF options.useLowercase THEN 26 ELSE 0)
    + (IF options.useDigits THEN 10 ELSE 0)
    + (IF options.useSymbols THEN Cardinality(Range(options.symbols)) ELSE 0)

\* The options invariant of the App.
OptionsAllowed(options) ==
  /\ options.symbols # <<>>
  /\ \A m, n \in 1..Len(options.symbols) :
       m # n => options.symbols[m] # options.symbols[n]
  /\ \A i \in 1..Len(options.symbols) :
       ReferenceClasses(options.symbols[i]) = {"symbol"}
  /\ \/ options.useUppercase \/ options.useLowercase \/ options.useDigits
     \/ (options.useSymbols /\ Len(options.symbols) > 1)

\* C35: after any sequence of onOptionsChange calls the options of the App
\* have a non-empty symbols string without a repeated character whose every
\* character is a symbol, and a class of letters or digits in use or symbols
\* in use with more than one symbol, so that the alphabet has two characters
\* at least; a delta whose new options would not be so leaves the options as
\* they are, any other delta is taken.
C35_OptionsInvariant ==
  /\ app.state = "mounted" =>
       /\ OptionsAllowed(app.options)
       /\ AlphabetSize(app.options) >= 2
       /\ \A optionsDelta \in DeltaSet :
            IF OptionsAllowed(NewOptions(app.options, optionsDelta))
              THEN OptionsChange(app.options, optionsDelta)
                     = NewOptions(app.options, optionsDelta)
              ELSE OptionsChange(app.options, optionsDelta) = app.options

\* After a change that left symbols as the only class in use, a delta has
\* been refused and the options are what they were.
C35_Witness ==
  /\ app.state = "mounted"
  /\ ~app.changed
  /\ app.options.useSymbols /\ app.options.symbols = <<37, 33>>
  /\ ~app.options.useUppercase /\ ~app.options.useLowercase
  /\ ~app.options.useDigits

\* The index of the first occurrence of a character in a string.
FirstIndex(str, character) ==
  CHOOSE i \in 1..Len(str) :
    str[i] = character /\ \A j \in 1..(i - 1) : str[j] # character

\* C37: removeDuplicateCharacters returns a string without a repeated
\* character that holds exactly the characters of its argument, in the order
\* of their first occurrence there, and applying it to its own result gives
\* that result again.
C37_RemoveDuplicatesCanonical ==
  deduplication.state = "returned" =>
    LET str       == deduplication.str
        strUnique == deduplication.strUnique
    IN  /\ \A m, n \in 1..Len(strUnique) :
             m # n => strUnique[m] # strUnique[n]
        /\ Range(strUnique) = Range(str)
        /\ \A m, n \in 1..Len(strUnique) :
             m < n => FirstIndex(str, strUnique[m]) < FirstIndex(str, strUnique[n])
        /\ removeDuplicateCharacters(strUnique) = strUnique

\* A string with a character repeated apart from its first occurrence has
\* been reduced to its three distinct characters.
C37_Witness ==
  /\ deduplication.state = "returned"
  /\ deduplication.str = <<37, 33, 37, 64>>
  /\ deduplication.strUnique = <<37, 33, 64>>

\* Every worker loop of every call made so far has settled.
AllLoopsSettled ==
  \A r \in RequestIds :
    /\ calls[r].phase = "dispatched"
    /\ \A w \in Workers : Settled(calls[r].promises[w])

\* The coordinator's own state is left as it is.
CoordinatorUnchanged ==
  UNCHANGED <<currentRequestId, ongoingWorkerPromises, workerPromiseHandlers,
              calls, inbox>>

\* C36: #workerPromiseHandlers holds handlers for a request id and a worker
\* exactly while a request with that id is outstanding on that worker, and
\* then the worker loop of that call is pending; once every worker loop of
\* every call has settled the map is empty; a response for which no handlers
\* are registered changes nothing in the coordinator.
C36_HandlersMatchOutstanding ==
  /\ [](\A r \in 1..MaxCalls : \A w \in Workers :
          /\ <<r, w>> \in workerPromiseHandlers <=> r \in Outstanding(w)
          /\ <<r, w>> \in workerPromiseHandlers =>
               /\ r \in RequestIds
               /\ calls[r].promises[w].state = "pending")
  /\ [](AllLoopsSettled => workerPromiseHandlers = {})
  /\ [][\A w \in Workers :
          (Handled(w) /\ Handlers(Head(outbox[w]).requestId, w) = {})
            => CoordinatorUnchanged]_vars

\* Two calls have been made and all their worker loops have settled, the
\* first cancelled after its time step, the second with a password; the map
\* holds no handlers.
C36_Witness ==
  /\ Entered(2) /\ AllLoopsSettled
  /\ workerPromiseHandlers = {}
  /\ calls[1].result.kind = "CancelError"
  /\ Returned(2)
  /\ \A w \in Workers : Outstanding(w) = {}

====
